---------------------------- MODULE Spec2Model ----------------------------
(***************************************************************************)
(* A model of the tabular ingestion pipeline of the stock dashboard:       *)
(*   - enhancedDataFilling   (src/src/components/FileUpload.tsx, the       *)
(*     spreadsheet-capable upload component, lines 538-664),               *)
(*   - validateAndProcessData / handleFileUpload of the same component,    *)
(*   - Index.handleFileUpload (src/unnamed/part_004, lines 29-86),         *)
(*   - EnhancedColumnMapper.mapColumns (src/src/utils/columnMapper.ts).    *)
(*                                                                         *)
(* Numbers.  A JavaScript number is a record [k, v]: k = "num" (finite,    *)
(* value v), "nan", "inf" or "ninf".  Prices are counted in thousandths    *)
(* of a currency unit, so that toFixed(2) really rounds: its result is a   *)
(* multiple of 10.  Volumes and trade counts are counted in whole shares.  *)
(* The turnover VALUE is too large for one machine integer in thousandths: *)
(* it is [k, neg, v, c], v whole units and c hundredths.                   *)
(* Math.random() returns r/100 for an r drawn from RandomValues.           *)
(* Arithmetic is exact (rational) where JavaScript's is binary floating    *)
(* point.                                                                  *)
(*                                                                         *)
(* Cells.  A raw cell of a parsed CSV row is a string or undefined:        *)
(* [k |-> "missing"] (undefined or ''), [k |-> "text"] (a non-empty        *)
(* string parseFloat cannot read) or [k |-> "num", v] (a numeric string).  *)
(* A field of the normalized row is a string too: the text of a number     *)
(* (k = "num", "nan", "inf", "ninf") or a raw non-numeric cell copied      *)
(* through (k = "text").                                                   *)
(***************************************************************************)
EXTENDS Integers, Sequences, FiniteSets, TLC

VARIABLES
    rawRow,         \* SpecFill: the row handed to the map callback
    rowCtx,         \* SpecFill: index > 0, mappings.prevClose, data[index-1][mappings.close]
    normalizedRow,  \* SpecFill: the row the callback returned
    fillPc,         \* SpecFill: "input" before the callback ran, "filled" after
    ingestFile,     \* SpecIngest: the file validateAndProcessData is called with
    ingestResult,   \* SpecIngest: how the call settled
    ingestPc,       \* SpecIngest: "reading" until the call settled, then "settled"
    error,          \* FileUpload state: the error message shown, "" for none
    fileName,       \* FileUpload state: the file name shown, <<>> for ''
    isProcessing,   \* FileUpload state
    columnMappingInfo, \* FileUpload state: the file whose mappings are shown
    uploads,        \* the calls of FileUpload's handleFileUpload, in the order
                    \* they started: file, position, data handed to the page
    indexIsProcessing, \* Index state isProcessing, FileUpload's prop disabled
    processingStep, \* Index state
    progress,       \* Index state
    uploadedData,   \* Index state
    predictions,    \* Index state
    enhancedPredictions, \* Index state
    trends,         \* Index state
    toast,          \* the title of the last toast shown, "" for none
    headers,        \* SpecMap: the header list mapColumns is called with
    mapResult,      \* SpecMap: what mapColumns returned
    mapAgain,       \* SpecMap: what a second call of mapColumns returned
    mapPc,          \* SpecMap: "input" before the call, "mapped" after it,
                    \* "again" after the second call
    libInput,       \* the arguments a parser or validator is called with
    libOutput,      \* what the call returned
    libPc           \* "input" before the call, "returned" after

fillVars == <<rawRow, rowCtx, normalizedRow, fillPc>>

ingestVars == <<ingestFile, ingestResult, ingestPc>>

componentVars == <<error, fileName, isProcessing, columnMappingInfo>>

resultVars == <<uploadedData, predictions, enhancedPredictions, trends>>

indexVars == <<indexIsProcessing, processingStep, progress, resultVars, toast>>

uploadVars == <<componentVars, uploads, indexVars>>

mapVars == <<headers, mapResult, mapAgain, mapPc>>

libVars == <<libInput, libOutput, libPc>>

\* what the upload path leaves alone
otherVars == <<fillVars, ingestVars, mapVars, libVars>>

vars == <<fillVars, ingestVars, uploadVars, mapVars, libVars>>

-----------------------------------------------------------------------------
(* JavaScript numbers *)

Num(n) == [k |-> "num", v |-> n]
NaN == [k |-> "nan", v |-> 0]
PosInf == [k |-> "inf", v |-> 0]
NegInf == [k |-> "ninf", v |-> 0]

Missing == [k |-> "missing", v |-> 0]
Text == [k |-> "text", v |-> 0]

IsNum(x) == x.k = "num"

Abs(n) == IF n < 0 THEN -n ELSE n
Sign(n) == IF n < 0 THEN -1 ELSE 1
Max(a, b) == IF a >= b THEN a ELSE b
Min(a, b) == IF a <= b THEN a ELSE b

\* Math.floor of the rational n/d, d # 0
FloorDiv(n, d) == IF d > 0 THEN n \div d ELSE (-n) \div (-d)

\* parseFloat of a cell or of a field of the normalized row
ParseFloat(c) == IF c.k \in {"missing", "text"} THEN NaN ELSE c

\* x || 0 on a number: NaN and 0 are falsy
OrZero(x) == IF x.k = "nan" \/ (x.k = "num" /\ x.v = 0) THEN Num(0) ELSE x

\* a cell used as a condition (row[col] || ..., if (row[col])): a string is
\* truthy unless it is empty, so the cell "0" is truthy
Truthy(c) == c.k # "missing"

\* (n/d).toFixed(2) for d > 0, in thousandths: the nearest hundredth, a tie
\* going away from zero
ToFixed2Q(n, d) == Num(Sign(n) * ((Abs(n) + 5 * d) \div (10 * d)) * 10)

\* x.toFixed(2) on any number: "NaN" and "Infinity" print as themselves
ToFixed2(x) == IF IsNum(x) THEN ToFixed2Q(x.v, 1) ELSE x

\* <<q, r>> with a * b = q * d + r and 0 <= r < d, for a, b >= 0 and d > 0,
\* computed without forming a * b (which need not fit a machine integer)
RECURSIVE MulDivQR(_, _, _)
MulDivQR(a, b, d) ==
    IF b = 0 THEN <<0, 0>>
    ELSE LET h == MulDivQR(a, b \div 2, d)
             t == 2 * h[2] + (b % 2) * (a % d)
         IN  <<2 * h[1] + (b % 2) * (a \div d) + (t \div d), t % d>>

\* Math.floor(a * b / d) for a >= 0 and d # 0
FloorMulDiv(a, b, d) ==
    LET qr == MulDivQR(a, Abs(b), Abs(d))
    IN  IF (b >= 0) = (d > 0) THEN qr[1]
        ELSE IF qr[2] = 0 THEN -qr[1] ELSE -qr[1] - 1

\* an amount of money as toFixed(2) prints it: v units and c hundredths
Money(neg, units, hundredths) == [k |-> "num", neg |-> neg, v |-> units, c |-> hundredths]

\* x.toFixed(2) as money, x a number in thousandths
MoneyOf(x) ==
    IF ~IsNum(x) THEN x
    ELSE LET r == ToFixed2Q(x.v, 1).v
         IN  Money(r < 0, Abs(r) \div 1000, (Abs(r) % 1000) \div 10)

\* (shares * price).toFixed(2), shares a whole number and price in thousandths,
\* both finite
MoneyProduct(shares, price) ==
    LET qr == MulDivQR(Abs(shares), Abs(price), 1000)
        h  == (qr[2] + 5) \div 10
    IN  Money((shares < 0) # (price < 0) /\ (qr[1] > 0 \/ h > 0),
              qr[1] + h \div 100, h % 100)

-----------------------------------------------------------------------------
(* enhancedDataFilling: the callback of data.map, one raw row at a time.     *)
(* rnd holds the values of the Math.random() calls of one row, in units of  *)
(* 1/100: gap/hi/lo for the three price draws, prev, vol, trade, h52, l52.  *)
(* The series code (row[mappings.series] || 'EQ') is a plain copy that no   *)
(* other field reads and is left out of the row.                            *)

DefaultBasePrice == 100000

\* a number that is truthy in `a || b`: not 0 (the operands are never NaN here)
NonZero(x) == x.v # 0

\* lines 549-592: close, ltp, OPEN, HIGH, LOW
FillPrices(row, rnd) ==
    LET open  == OrZero(ParseFloat(row.open))
        high  == OrZero(ParseFloat(row.high))
        low   == OrZero(ParseFloat(row.low))
        close == OrZero(ParseFloat(row.close))
    IN  IF close.v > 0
        THEN LET OPEN == IF open.v = 0
                         THEN ToFixed2Q(close.v * (10000 + 4 * (rnd.gap - 50)), 10000)
                         ELSE ToFixed2(open)
                 baseHigh == Max(OPEN.v, close.v)
                 baseLow  == Min(OPEN.v, close.v)
             IN  [close |-> ToFixed2(close),
                  ltp   |-> ToFixed2(close),
                  OPEN  |-> OPEN,
                  HIGH  |-> IF high.v = 0 \/ high.v < baseHigh
                            THEN ToFixed2Q(baseHigh * (10000 + 3 * rnd.hi), 10000)
                            ELSE ToFixed2(high),
                  LOW   |-> IF low.v = 0 \/ low.v > baseLow
                            THEN ToFixed2Q(baseLow * (10000 - 3 * rnd.lo), 10000)
                            ELSE ToFixed2(low)]
        ELSE LET basePrice == IF NonZero(open) THEN open.v
                              ELSE IF NonZero(high) THEN high.v
                              ELSE IF NonZero(low) THEN low.v
                              ELSE DefaultBasePrice
             IN  [close |-> ToFixed2Q(basePrice, 1),
                  ltp   |-> ToFixed2Q(basePrice, 1),
                  OPEN  |-> ToFixed2Q(basePrice * (9900 + 2 * rnd.gap), 10000),
                  HIGH  |-> ToFixed2Q(basePrice * (10100 + 2 * rnd.hi), 10000),
                  LOW   |-> ToFixed2Q(basePrice * (9700 + 2 * rnd.lo), 10000)]

\* lines 600-605: vwap
FillVwap(row, px) ==
    IF Truthy(row.vwap)
    THEN ToFixed2(ParseFloat(row.vwap))
    ELSE ToFixed2Q(px.HIGH.v + px.LOW.v + px.close.v * 2, 4)

\* lines 607-615: PREV. CLOSE.  ctx.later is index > 0, ctx.hasPrevCol is
\* mappings.prevClose, ctx.prevRowClose is data[index - 1][mappings.close]
FillPrevClose(row, ctx, px, rnd) ==
    IF ctx.later /\ ctx.hasPrevCol
    THEN IF Truthy(row.prevClose)
         THEN row.prevClose
         ELSE ToFixed2(ParseFloat(IF Truthy(ctx.prevRowClose)
                                  THEN ctx.prevRowClose ELSE px.close))
    ELSE LET prevClose == OrZero(ParseFloat(row.prevClose))
         IN  IF NonZero(prevClose)
             THEN ToFixed2(prevClose)
             ELSE ToFixed2Q(px.close.v * (9800 + 4 * rnd.prev), 10000)

\* lines 618-626: VOLUME (volume.toString())
FillVolume(row, px, prevOut, rnd) ==
    LET volume == OrZero(ParseFloat(row.volume))
        prev   == ParseFloat(prevOut)
        priceChange == Abs(px.close.v - prev.v)
    IN  IF volume.k = "num" /\ volume.v = 0
        THEN IF prev.k # "num" THEN NaN
             ELSE IF prev.v = 0
                  THEN (IF priceChange = 0 THEN NaN ELSE PosInf)
                  \* floor((50000 + volatility * 500000) * (0.5 + random))
                  ELSE Num(500 * (50 + rnd.vol)
                           + FloorMulDiv(5000 * (50 + rnd.vol), priceChange, prev.v))
        ELSE volume

\* lines 629-634: VALUE
FillValue(row, volume, vwap) ==
    IF Truthy(row.value)
    THEN MoneyOf(ParseFloat(row.value))
    ELSE LET price == ParseFloat(vwap)
         IN  IF volume.k = "nan" \/ price.k = "nan" THEN NaN
             ELSE IF IsNum(volume) THEN MoneyProduct(volume.v, price.v)
             ELSE IF price.v = 0 THEN NaN
             ELSE IF (volume.k = "inf") = (price.v > 0) THEN PosInf ELSE NegInf

\* lines 637-643: No of trades
FillTrades(row, volume, rnd) ==
    IF Truthy(row.trades)
    THEN row.trades
    ELSE IF IsNum(volume)
         THEN Num(FloorDiv(volume.v, 50 + 2 * rnd.trade))
         ELSE volume

\* lines 646-652: 52W H
FillFiftyTwoWeekHigh(row, px, rnd) ==
    IF Truthy(row.fiftyTwoWeekHigh)
    THEN ToFixed2(ParseFloat(row.fiftyTwoWeekHigh))
    ELSE ToFixed2Q(px.close.v * 1000, 700 + 3 * rnd.h52)

\* lines 654-660: 52W L
FillFiftyTwoWeekLow(row, px, rnd) ==
    IF Truthy(row.fiftyTwoWeekLow)
    THEN ToFixed2(ParseFloat(row.fiftyTwoWeekLow))
    ELSE ToFixed2Q(px.close.v * 200, 200 + rnd.l52)

\* lines 541-663: the normalized row of one raw row
FillRow(row, ctx, rnd) ==
    LET px     == FillPrices(row, rnd)
        vwap   == FillVwap(row, px)
        prev   == FillPrevClose(row, ctx, px, rnd)
        volume == FillVolume(row, px, prev, rnd)
    IN  [OPEN |-> px.OPEN, HIGH |-> px.HIGH, LOW |-> px.LOW,
         close |-> px.close, ltp |-> px.ltp,
         vwap |-> vwap,
         PREV_CLOSE |-> prev,
         VOLUME |-> volume,
         VALUE |-> FillValue(row, volume, vwap),
         trades |-> FillTrades(row, volume, rnd),
         H52 |-> FillFiftyTwoWeekHigh(row, px, rnd),
         L52 |-> FillFiftyTwoWeekLow(row, px, rnd)]

EmptyRow == [open |-> Missing, high |-> Missing, low |-> Missing, close |-> Missing,
             prevClose |-> Missing, vwap |-> Missing, volume |-> Missing,
             value |-> Missing, trades |-> Missing,
             fiftyTwoWeekHigh |-> Missing, fiftyTwoWeekLow |-> Missing]

FirstRowCtx == [later |-> FALSE, hasPrevCol |-> FALSE, prevRowClose |-> Missing]

NoRow == [OPEN |-> Num(0), HIGH |-> Num(0), LOW |-> Num(0), close |-> Num(0),
          ltp |-> Num(0), vwap |-> Num(0), PREV_CLOSE |-> Num(0), VOLUME |-> Num(0),
          VALUE |-> Money(FALSE, 0, 0), trades |-> Num(0), H52 |-> Num(0), L52 |-> Num(0)]

\* no row is being filled
FillIdle ==
    /\ rawRow = EmptyRow
    /\ rowCtx = FirstRowCtx
    /\ normalizedRow = NoRow
    /\ fillPc = "idle"

-----------------------------------------------------------------------------
(* EnhancedColumnMapper (columnMapper.ts).                                   *)
(* A string is the sequence of its characters.  A confidence is a fraction  *)
(* [n, d] with d > 0, compared by cross-multiplication; the code computes   *)
(* it in floating point.                                                     *)

UpperCaseLetters ==
    <<"A", "B", "C", "D", "E", "F", "G", "H", "I", "J", "K", "L", "M",
      "N", "O", "P", "Q", "R", "S", "T", "U", "V", "W", "X", "Y", "Z">>

LowerCaseLetters ==
    <<"a", "b", "c", "d", "e", "f", "g", "h", "i", "j", "k", "l", "m",
      "n", "o", "p", "q", "r", "s", "t", "u", "v", "w", "x", "y", "z">>

LowerChar(c) ==
    IF \E i \in DOMAIN UpperCaseLetters : UpperCaseLetters[i] = c
    THEN LowerCaseLetters[CHOOSE i \in DOMAIN UpperCaseLetters : UpperCaseLetters[i] = c]
    ELSE c

\* String.prototype.toLowerCase
Lowercase(str) == [i \in 1..Len(str) |-> LowerChar(str[i])]

\* String.prototype.trim
RECURSIVE Trim(_)
Trim(str) ==
    IF str = <<>> THEN str
    ELSE IF str[1] = " " THEN Trim(Tail(str))
    ELSE IF str[Len(str)] = " " THEN Trim(SubSeq(str, 1, Len(str) - 1))
    ELSE str

\* String.prototype.includes
Includes(str, part) ==
    \E i \in 0..(Len(str) - Len(part)) : SubSeq(str, i + 1, i + Len(part)) = part

Frac(n, d) == [n |-> n, d |-> d]
Greater(a, b) == a.n * b.d > b.n * a.d
SameValue(a, b) == a.n * b.d = b.n * a.d

RECURSIVE GCD(_, _)
GCD(a, b) == IF b = 0 THEN a ELSE GCD(b, a % b)

\* a fraction in lowest terms
Lowest(n, d) == IF n = 0 THEN Frac(0, 1) ELSE Frac(n \div GCD(n, d), d \div GCD(n, d))
Plus(a, b) == Lowest(a.n * b.d + b.n * a.d, a.d * b.d)
Times(a, b) == Lowest(a.n * b.n, a.d * b.d)

COLUMN_DEFINITIONS ==
    <<
      [name |-> "date", required |-> TRUE, weight |-> 10,
       variations |->
          <<<<"D", "a", "t", "e">>, <<"D", "A", "T", "E">>, <<"d", "a", "t", "e">>,
            <<"t", "i", "m", "e", "s", "t", "a", "m", "p">>,
            <<"T", "i", "m", "e", "s", "t", "a", "m", "p">>, <<"T", "I", "M", "E">>,
            <<"t", "i", "m", "e">>,
            <<"t", "r", "a", "d", "i", "n", "g", "_", "d", "a", "t", "e">>,
            <<"T", "R", "A", "D", "I", "N", "G", "_", "D", "A", "T", "E">>,
            <<"t", "r", "a", "d", "e", "_", "d", "a", "t", "e">>,
            <<"T", "R", "A", "D", "E", "_", "D", "A", "T", "E">>, <<"d", "t">>, <<"D", "T">>,
            <<"d", "a", "y">>, <<"D", "a", "y">>, <<"D", "A", "Y">>>>],
      [name |-> "series", required |-> FALSE, weight |-> 6,
       variations |->
          <<<<"s", "e", "r", "i", "e", "s">>, <<"S", "e", "r", "i", "e", "s">>,
            <<"S", "E", "R", "I", "E", "S">>, <<"s", "y", "m", "b", "o", "l">>,
            <<"S", "y", "m", "b", "o", "l">>, <<"S", "Y", "M", "B", "O", "L">>,
            <<"t", "i", "c", "k", "e", "r">>, <<"T", "i", "c", "k", "e", "r">>,
            <<"T", "I", "C", "K", "E", "R">>,
            <<"m", "a", "r", "k", "e", "t", "_", "s", "e", "g", "m", "e", "n", "t">>,
            <<"M", "A", "R", "K", "E", "T", "_", "S", "E", "G", "M", "E", "N", "T">>,
            <<"s", "e", "g">>, <<"S", "E", "G">>, <<"s", "e", "g", "m", "e", "n", "t">>,
            <<"S", "e", "g", "m", "e", "n", "t">>, <<"S", "E", "G", "M", "E", "N", "T">>>>],
      [name |-> "open", required |-> TRUE, weight |-> 9,
       variations |->
          <<<<"O", "P", "E", "N">>, <<"o", "p", "e", "n">>, <<"O", "p", "e", "n">>,
            <<"o", "p", "e", "n", "i", "n", "g">>, <<"O", "p", "e", "n", "i", "n", "g">>,
            <<"O", "P", "E", "N", "I", "N", "G">>,
            <<"o", "p", "e", "n", "_", "p", "r", "i", "c", "e">>,
            <<"O", "P", "E", "N", "_", "P", "R", "I", "C", "E">>,
            <<"o", "p", "e", "n", "P", "r", "i", "c", "e">>,
            <<"O", "p", "e", "n", "P", "r", "i", "c", "e">>, <<"o">>, <<"O">>>>],
      [name |-> "high", required |-> TRUE, weight |-> 9,
       variations |->
          <<<<"H", "I", "G", "H">>, <<"h", "i", "g", "h">>, <<"H", "i", "g", "h">>,
            <<"m", "a", "x", "i", "m", "u", "m">>, <<"m", "a", "x">>, <<"M", "a", "x">>,
            <<"M", "A", "X">>, <<"d", "a", "y", "_", "h", "i", "g", "h">>,
            <<"D", "A", "Y", "_", "H", "I", "G", "H">>, <<"d", "a", "y", "H", "i", "g", "h">>,
            <<"D", "a", "y", "H", "i", "g", "h">>, <<"h">>, <<"H">>, <<"p", "e", "a", "k">>,
            <<"P", "e", "a", "k">>, <<"P", "E", "A", "K">>>>],
      [name |-> "low", required |-> TRUE, weight |-> 9,
       variations |->
          <<<<"L", "O", "W">>, <<"l", "o", "w">>, <<"L", "o", "w">>,
            <<"m", "i", "n", "i", "m", "u", "m">>, <<"m", "i", "n">>, <<"M", "i", "n">>,
            <<"M", "I", "N">>, <<"d", "a", "y", "_", "l", "o", "w">>,
            <<"D", "A", "Y", "_", "L", "O", "W">>, <<"d", "a", "y", "L", "o", "w">>,
            <<"D", "a", "y", "L", "o", "w">>, <<"l">>, <<"L">>, <<"b", "o", "t", "t", "o", "m">>,
            <<"B", "o", "t", "t", "o", "m">>, <<"B", "O", "T", "T", "O", "M">>>>],
      [name |-> "close", required |-> TRUE, weight |-> 10,
       variations |->
          <<<<"c", "l", "o", "s", "e">>, <<"C", "l", "o", "s", "e">>,
            <<"C", "L", "O", "S", "E">>, <<"c", "l", "o", "s", "i", "n", "g">>,
            <<"C", "l", "o", "s", "i", "n", "g">>, <<"C", "L", "O", "S", "I", "N", "G">>,
            <<"c", "l", "o", "s", "i", "n", "g", "_", "p", "r", "i", "c", "e">>,
            <<"C", "L", "O", "S", "I", "N", "G", "_", "P", "R", "I", "C", "E">>,
            <<"c", "l", "o", "s", "i", "n", "g", "P", "r", "i", "c", "e">>,
            <<"C", "l", "o", "s", "i", "n", "g", "P", "r", "i", "c", "e">>, <<"c">>, <<"C">>,
            <<"e", "n", "d">>, <<"E", "n", "d">>, <<"E", "N", "D">>>>],
      [name |-> "prevClose", required |-> FALSE, weight |-> 7,
       variations |->
          <<<<"P", "R", "E", "V", ".", " ", "C", "L", "O", "S", "E">>,
            <<"P", "R", "E", "V", " ", "C", "L", "O", "S", "E">>,
            <<"p", "r", "e", "v", " ", "c", "l", "o", "s", "e">>,
            <<"p", "r", "e", "v", "i", "o", "u", "s", " ", "c", "l", "o", "s", "e">>,
            <<"p", "r", "e", "v", "c", "l", "o", "s", "e">>,
            <<"p", "r", "e", "v", "_", "c", "l", "o", "s", "e">>,
            <<"p", "r", "e", "v", "i", "o", "u", "s", "_", "c", "l", "o", "s", "e">>,
            <<"P", "R", "E", "V", "I", "O", "U", "S", "_", "C", "L", "O", "S", "E">>,
            <<"p", "r", "e", "v", "C", "l", "o", "s", "e">>,
            <<"P", "r", "e", "v", "C", "l", "o", "s", "e">>,
            <<"p", "r", "e", "v", "i", "o", "u", "s", "C", "l", "o", "s", "e">>,
            <<"P", "r", "e", "v", "i", "o", "u", "s", "C", "l", "o", "s", "e">>,
            <<"l", "a", "s", "t", "_", "c", "l", "o", "s", "e">>,
            <<"L", "A", "S", "T", "_", "C", "L", "O", "S", "E">>>>],
      [name |-> "ltp", required |-> FALSE, weight |-> 8,
       variations |->
          <<<<"l", "t", "p">>, <<"L", "T", "P">>, <<"L", "t", "p">>,
            <<"l", "a", "s", "t", "_", "p", "r", "i", "c", "e">>,
            <<"L", "A", "S", "T", "_", "P", "R", "I", "C", "E">>,
            <<"l", "a", "s", "t", "P", "r", "i", "c", "e">>,
            <<"l", "a", "s", "t", "_", "t", "r", "a", "d", "e", "d", "_", "p", "r", "i", "c", "e">>,
            <<"L", "A", "S", "T", "_", "T", "R", "A", "D", "E", "D", "_", "P", "R", "I", "C", "E">>,
            <<"l", "a", "s", "t", "T", "r", "a", "d", "e", "d", "P", "r", "i", "c", "e">>,
            <<"c", "u", "r", "r", "e", "n", "t">>, <<"C", "u", "r", "r", "e", "n", "t">>,
            <<"C", "U", "R", "R", "E", "N", "T">>, <<"l", "a", "t", "e", "s", "t">>,
            <<"L", "a", "t", "e", "s", "t">>, <<"L", "A", "T", "E", "S", "T">>>>],
      [name |-> "vwap", required |-> FALSE, weight |-> 6,
       variations |->
          <<<<"v", "w", "a", "p">>, <<"V", "W", "A", "P">>, <<"V", "w", "a", "p">>,
            <<"w", "e", "i", "g", "h", "t", "e", "d", " ", "a", "v", "e", "r", "a", "g", "e">>,
            <<"a", "v", "g", " ", "p", "r", "i", "c", "e">>,
            <<"a", "v", "g", "P", "r", "i", "c", "e">>,
            <<"v", "o", "l", "u", "m", "e", "_", "w", "e", "i", "g", "h", "t", "e", "d", "_", "a", "v", "g">>,
            <<"V", "O", "L", "U", "M", "E", "_", "W", "E", "I", "G", "H", "T", "E", "D", "_", "A", "V", "G">>,
            <<"v", "o", "l", "u", "m", "e", "W", "e", "i", "g", "h", "t", "e", "d", "A", "v", "g">>,
            <<"w", "a", "p">>, <<"W", "A", "P">>,
            <<"w", "e", "i", "g", "h", "t", "e", "d", "_", "a", "v", "g">>,
            <<"W", "E", "I", "G", "H", "T", "E", "D", "_", "A", "V", "G">>>>],
      [name |-> "volume", required |-> TRUE, weight |-> 9,
       variations |->
          <<<<"V", "O", "L", "U", "M", "E">>, <<"v", "o", "l", "u", "m", "e">>,
            <<"V", "o", "l", "u", "m", "e">>, <<"v", "o", "l">>, <<"V", "o", "l">>,
            <<"V", "O", "L">>, <<"q", "u", "a", "n", "t", "i", "t", "y">>,
            <<"Q", "u", "a", "n", "t", "i", "t", "y">>,
            <<"Q", "U", "A", "N", "T", "I", "T", "Y">>, <<"q", "t", "y">>, <<"Q", "t", "y">>,
            <<"Q", "T", "Y">>,
            <<"s", "h", "a", "r", "e", "s", "_", "t", "r", "a", "d", "e", "d">>,
            <<"S", "H", "A", "R", "E", "S", "_", "T", "R", "A", "D", "E", "D">>,
            <<"s", "h", "a", "r", "e", "s", "T", "r", "a", "d", "e">>,
            <<"S", "h", "a", "r", "e", "s", "T", "r", "a", "d", "e", "d">>,
            <<"u", "n", "i", "t", "s">>, <<"U", "n", "i", "t", "s">>,
            <<"U", "N", "I", "T", "S">>>>],
      [name |-> "value", required |-> FALSE, weight |-> 7,
       variations |->
          <<<<"V", "A", "L", "U", "E">>, <<"v", "a", "l", "u", "e">>,
            <<"V", "a", "l", "u", "e">>, <<"t", "u", "r", "n", "o", "v", "e", "r">>,
            <<"T", "u", "r", "n", "o", "v", "e", "r">>,
            <<"T", "U", "R", "N", "O", "V", "E", "R">>, <<"a", "m", "o", "u", "n", "t">>,
            <<"A", "m", "o", "u", "n", "t">>, <<"A", "M", "O", "U", "N", "T">>,
            <<"t", "o", "t", "a", "l", "_", "v", "a", "l", "u", "e">>,
            <<"T", "O", "T", "A", "L", "_", "V", "A", "L", "U", "E">>,
            <<"t", "o", "t", "a", "l", "V", "a", "l", "u", "e">>,
            <<"T", "o", "t", "a", "l", "V", "a", "l", "u", "e">>, <<"w", "o", "r", "t", "h">>,
            <<"W", "o", "r", "t", "h">>, <<"W", "O", "R", "T", "H">>>>],
      [name |-> "trades", required |-> FALSE, weight |-> 6,
       variations |->
          <<<<"N", "o", " ", "o", "f", " ", "t", "r", "a", "d", "e", "s">>,
            <<"N", "O", " ", "O", "F", " ", "T", "R", "A", "D", "E", "S">>,
            <<"t", "r", "a", "d", "e", "s">>,
            <<"t", "r", "a", "d", "e", " ", "c", "o", "u", "n", "t">>,
            <<"t", "r", "a", "d", "e", "C", "o", "u", "n", "t">>,
            <<"t", "r", "a", "n", "s", "a", "c", "t", "i", "o", "n", "s">>,
            <<"n", "o", "_", "o", "f", "_", "t", "r", "a", "d", "e", "s">>,
            <<"t", "r", "a", "d", "e", "_", "c", "o", "u", "n", "t">>,
            <<"T", "R", "A", "D", "E", "_", "C", "O", "U", "N", "T">>,
            <<"N", "u", "m", "b", "e", "r", " ", "o", "f", " ", "t", "r", "a", "d", "e", "s">>,
            <<"N", "U", "M", "B", "E", "R", " ", "O", "F", " ", "T", "R", "A", "D", "E", "S">>,
            <<"n", "u", "m", "b", "e", "r", "O", "f", "T", "r", "a", "d", "e", "s">>,
            <<"t", "x">>, <<"T", "X">>, <<"t", "r", "a", "n", "s">>, <<"T", "r", "a", "n", "s">>,
            <<"T", "R", "A", "N", "S">>>>],
      [name |-> "fiftyTwoWeekHigh", required |-> FALSE, weight |-> 5,
       variations |->
          <<<<"5", "2", "W", " ", "H">>, <<"5", "2", "W", "_", "H">>,
            <<"5", "2", "w", " ", "h", "i", "g", "h">>,
            <<"5", "2", " ", "w", "e", "e", "k", " ", "h", "i", "g", "h">>,
            <<"5", "2", "W", "e", "e", "k", "H", "i", "g", "h">>,
            <<"y", "e", "a", "r", "l", "y", " ", "h", "i", "g", "h">>,
            <<"5", "2", "_", "w", "e", "e", "k", "_", "h", "i", "g", "h">>,
            <<"5", "2", "W", "H">>, <<"5", "2", "W", " ", "H", "I", "G", "H">>,
            <<"y", "e", "a", "r", "_", "h", "i", "g", "h">>,
            <<"Y", "E", "A", "R", "_", "H", "I", "G", "H">>,
            <<"y", "e", "a", "r", "H", "i", "g", "h">>,
            <<"Y", "e", "a", "r", "H", "i", "g", "h">>>>],
      [name |-> "fiftyTwoWeekLow", required |-> FALSE, weight |-> 5,
       variations |->
          <<<<"5", "2", "W", " ", "L">>, <<"5", "2", "W", "_", "L">>,
            <<"5", "2", "w", " ", "l", "o", "w">>,
            <<"5", "2", " ", "w", "e", "e", "k", " ", "l", "o", "w">>,
            <<"5", "2", "W", "e", "e", "k", "L", "o", "w">>,
            <<"y", "e", "a", "r", "l", "y", " ", "l", "o", "w">>,
            <<"5", "2", "_", "w", "e", "e", "k", "_", "l", "o", "w">>, <<"5", "2", "W", "L">>,
            <<"5", "2", "W", " ", "L", "O", "W">>, <<"y", "e", "a", "r", "_", "l", "o", "w">>,
            <<"Y", "E", "A", "R", "_", "L", "O", "W">>, <<"y", "e", "a", "r", "L", "o", "w">>,
            <<"Y", "e", "a", "r", "L", "o", "w">>>>]
    >>

\* the least number of a set of numbers
Least(S) == CHOOSE m \in S : \A n \in S : m <= n

\* lines 271-280: row j of the matrix from the row above it.  Column i is the
\* least of the insertion and substitution terms, which come from the row
\* above, and of the deletion term, column i - 1 plus 1: so it is the least,
\* over the columns k up to i, of the insertion and substitution terms of
\* column k plus i - k.  Column 0, which is j, has the insertion term only.
\* A row is the sequence of its columns 0, 1, ..: column i is element i + 1.
MatrixRow(above, str1, c2) ==
    LET FromAbove(k) ==
            IF k = 0 THEN above[1] + 1
            ELSE Min(above[k + 1] + 1, above[k] + (IF str1[k] = c2 THEN 0 ELSE 1))
        row == [i \in 0..Len(str1) |-> Least({FromAbove(k) + (i - k) : k \in 0..i})]
    IN  SubSeq([i \in 1..(Len(str1) + 1) |-> row[i - 1]], 1, Len(str1) + 1)

\* lines 261-282: row j of the matrix
RECURSIVE MatrixRows(_, _, _)
MatrixRows(str1, str2, j) ==
    IF j = 0 THEN SubSeq([i \in 1..(Len(str1) + 1) |-> i - 1], 1, Len(str1) + 1)
    ELSE MatrixRow(MatrixRows(str1, str2, j - 1), str1, str2[j])

\* lines 260-286
levenshteinSimilarity(str1, str2) ==
    LET distance == MatrixRows(str1, str2, Len(str2))[Len(str1) + 1]
        maxLength == Max(Len(str1), Len(str2))
    IN  IF maxLength > 0 THEN Frac(maxLength - distance, maxLength) ELSE Frac(0, 1)

\* lines 242-258
calculateSimilarity(str1, str2) ==
    LET s1 == Trim(Lowercase(str1))
        s2 == Trim(Lowercase(str2))
    IN  IF s1 = s2 THEN Frac(1, 1)
        ELSE IF Includes(s1, s2) \/ Includes(s2, s1) THEN Frac(9, 10)
        ELSE levenshteinSimilarity(s1, s2)

\* the headers of the files in use
HeaderPool ==
    <<<<"D", "a", "t", "e">>, <<"O", "P", "E", "N">>, <<"H", "I", "G", "H">>,
      <<"L", "O", "W">>, <<"C", "l", "o", "s", "e">>,
      <<"V", "o", "l", "u", "m", "e">>, <<"N", "o", "t", "e", "s">>>>

\* calculateSimilarity of header h of the pool and variation v of definition
\* f, computed once
SimilarityTable ==
    [h \in DOMAIN HeaderPool |->
        [f \in DOMAIN COLUMN_DEFINITIONS |->
            [v \in DOMAIN COLUMN_DEFINITIONS[f].variations |->
                calculateSimilarity(HeaderPool[h], COLUMN_DEFINITIONS[f].variations[v])]]]

\* calculateSimilarity(header, variation v of definition f)
Similarity(header, f, v) ==
    SimilarityTable[CHOOSE h \in DOMAIN HeaderPool : HeaderPool[h] = header][f][v]

NoMatch == [header |-> <<>>, confidence |-> Frac(0, 1)]

\* line 233 without the comparison with bestMatch.confidence: the last match
\* above the threshold is kept, whatever was found before
ImprovesRegardless(confidence, bestMatch) ==
    Greater(confidence, Frac(0, 1)) /\ bestMatch # NoMatch

\* line 233, second conjunct, with bestMatch set
Improves(confidence, bestMatch) == Greater(confidence, bestMatch.confidence)

\* lines 233-235: bestMatch after the variation with this confidence
KeepBest(bestMatch, header, confidence) ==
    IF /\ Greater(confidence, Frac(7, 10))
       /\ (bestMatch = NoMatch \/ Improves(confidence, bestMatch))
    THEN [header |-> header, confidence |-> confidence]
    ELSE bestMatch

\* lines 230-236: the inner loop, over variations 1..v of definition f,
\* entered with bestMatch
RECURSIVE BestOfVariations(_, _, _, _)
BestOfVariations(header, f, v, bestMatch) ==
    IF v = 0 THEN bestMatch
    ELSE KeepBest(BestOfVariations(header, f, v - 1, bestMatch),
                  header, Similarity(header, f, v))

\* lines 229-237: the outer loop, over headers 1..h (the test on bestMatch
\* only has the earlier headers done before the inner loop starts)
RECURSIVE BestMatchUpTo(_, _, _)
BestMatchUpTo(hdrs, f, h) ==
    IF h = 0 THEN NoMatch
    ELSE LET bestMatch == BestMatchUpTo(hdrs, f, h - 1)
             last == Len(COLUMN_DEFINITIONS[f].variations)
         IN  IF bestMatch = NoMatch
             THEN BestOfVariations(hdrs[h], f, last, NoMatch)
             ELSE BestOfVariations(hdrs[h], f, last, bestMatch)

\* lines 226-240: findBestMatch(headers, definition.variations, standardName)
\* for definition f
findBestMatch(hdrs, f) == BestMatchUpTo(hdrs, f, Len(hdrs))

NoSuggestion == [name |-> "", confidence |-> Frac(0, 1)]

\* lines 295-297: bestSuggestion after the variation with this confidence
KeepSuggestion(bestSuggestion, name, confidence) ==
    IF /\ Greater(confidence, Frac(5, 10))
       /\ (bestSuggestion = NoSuggestion \/ Greater(confidence, bestSuggestion.confidence))
    THEN [name |-> name, confidence |-> confidence]
    ELSE bestSuggestion

\* lines 292-298: the inner loop, over variations 1..v of definition f,
\* entered with bestSuggestion
RECURSIVE SuggestionOfVariations(_, _, _, _)
SuggestionOfVariations(unmappedColumn, f, v, bestSuggestion) ==
    IF v = 0 THEN bestSuggestion
    ELSE KeepSuggestion(SuggestionOfVariations(unmappedColumn, f, v - 1, bestSuggestion),
                        COLUMN_DEFINITIONS[f].name, Similarity(unmappedColumn, f, v))

\* lines 291-299: the outer loop, over definitions 1..f (the test on
\* bestSuggestion only has the earlier definitions done before the inner
\* loop starts)
RECURSIVE BestSuggestionUpTo(_, _)
BestSuggestionUpTo(unmappedColumn, f) ==
    IF f = 0 THEN NoSuggestion
    ELSE LET bestSuggestion == BestSuggestionUpTo(unmappedColumn, f - 1)
             last == Len(COLUMN_DEFINITIONS[f].variations)
         IN  IF bestSuggestion = NoSuggestion
             THEN SuggestionOfVariations(unmappedColumn, f, last, NoSuggestion)
             ELSE SuggestionOfVariations(unmappedColumn, f, last, bestSuggestion)

\* lines 288-302: the suggested standard name, "" for null
suggestMapping(unmappedColumn) ==
    LET bestSuggestion == BestSuggestionUpTo(unmappedColumn, Len(COLUMN_DEFINITIONS))
    IN  IF bestSuggestion # NoSuggestion /\ Greater(bestSuggestion.confidence, Frac(6, 10))
        THEN bestSuggestion.name ELSE ""

\* the locals of mapColumns kept from the call before instead of being
\* declared afresh
CarriedOver ==
    [mappings |-> mapResult.mappings, suggestions |-> mapResult.suggestions,
     totalConfidence |-> Frac(0, 1), mappedCount |-> 0]

\* lines 172-176: the locals of mapColumns before its loop
NothingMapped ==
    [mappings |-> <<>>, suggestions |-> <<>>,
     totalConfidence |-> Frac(0, 1), mappedCount |-> 0]

\* lines 179-199: the locals of mapColumns after its loop has done the
\* definitions 1..f
RECURSIVE MappedUpTo(_, _)
MappedUpTo(hdrs, f) ==
    IF f = 0 THEN NothingMapped
    ELSE LET definition == COLUMN_DEFINITIONS[f]
             bestMatch == findBestMatch(hdrs, f)
             before == MappedUpTo(hdrs, f - 1)
         IN  IF bestMatch # NoMatch
             THEN [mappings |->
                       before.mappings @@
                       (definition.name :> [originalName |-> bestMatch.header,
                                            confidence |-> bestMatch.confidence]),
                   suggestions |-> before.suggestions,
                   totalConfidence |->
                       Plus(before.totalConfidence,
                            Times(bestMatch.confidence, Frac(definition.weight, 10))),
                   mappedCount |-> before.mappedCount + 1]
             ELSE IF definition.required
             THEN [before EXCEPT !.suggestions =
                       Append(@, [kind |-> "Missing required column",
                                  column |-> <<>>, name |-> definition.name])]
             ELSE before

\* lines 208-213: the suggestions for the unmapped columns 1..i
RECURSIVE MightBe(_, _)
MightBe(unmappedColumns, i) ==
    IF i = 0 THEN <<>>
    ELSE LET suggestion == suggestMapping(unmappedColumns[i])
         IN  IF suggestion # ""
             THEN Append(MightBe(unmappedColumns, i - 1),
                         [kind |-> "might be", column |-> unmappedColumns[i],
                          name |-> suggestion])
             ELSE MightBe(unmappedColumns, i - 1)

\* lines 169-224
mapColumns(hdrs) ==
    LET done == MappedUpTo(hdrs, Len(COLUMN_DEFINITIONS))
        mappedHeaders == {done.mappings[name].originalName : name \in DOMAIN done.mappings}
        unmappedColumns == SelectSeq(hdrs, LAMBDA h : h \notin mappedHeaders)
    IN  [mappings |-> done.mappings,
         unmappedColumns |-> unmappedColumns,
         confidence |-> IF done.mappedCount > 0
                        THEN Times(done.totalConfidence, Frac(1, done.mappedCount))
                        ELSE Frac(0, 1),
         suggestions |-> done.suggestions \o MightBe(unmappedColumns, Len(unmappedColumns))]

NoResult == [mappings |-> <<>>, unmappedColumns |-> <<>>, confidence |-> Frac(0, 1),
             suggestions |-> <<>>]

\* mapColumns is not being called
MapIdle ==
    /\ headers = <<>>
    /\ mapResult = NoResult
    /\ mapAgain = NoResult
    /\ mapPc = "idle"

\* no parser or validator is being called
LibIdle ==
    /\ libInput = <<>>
    /\ libOutput = <<>>
    /\ libPc = "idle"

-----------------------------------------------------------------------------
(* Files and validateAndProcessData.                                         *)
(* A file name is the sequence of its parts between dots: prices.CSV is      *)
(* <<"prices", "CSV">>, and a name without a dot has one part.  A file has  *)
(* a name, a size class (big: more than 50 MB), and what its reader finds: *)
(* readable or not, and the data rows.  On the upload path a row is kept    *)
(* as its date cell, the one field the sort, the row threshold and the      *)
(* analysis' length test read; the other fields are the subject of          *)
(* SpecFill.  A date cell is Missing, Text (no date) or Day(d), and a       *)
(* normalized Date is Text or Day(d), d counting days.                      *)

Day(d) == [k |-> "day", v |-> d]

\* the day of Date.now()
Today == 100

\* String.prototype.toLowerCase on the name parts in use
ToLowerCase(part) ==
    CASE part = "CSV" -> "csv"
      [] part = "XLSX" -> "xlsx"
      [] part = "PDF" -> "pdf"
      [] OTHER -> part

\* line 428
getSupportedFileTypes == {"csv", "txt", "xlsx", "xls", "xlsm", "xlsb", "xltx"}

\* lines 430-433: fileName.toLowerCase().split('.').pop() is one of the types
isFileTypeSupported(name) ==
    ToLowerCase(name[Len(name)]) \in getSupportedFileTypes

\* file.name.toLowerCase().endsWith('.' + ext)
EndsWith(name, ext) == Len(name) >= 2 /\ ToLowerCase(name[Len(name)]) = ext

MaxFileSizeMessage == "File size must be less than 50MB"
UnsupportedMessage == "Unsupported file type. Please upload: .csv, .txt, .xlsx, .xls, .xlsm, .xlsb, .xltx"
EmptyMessage == "File is empty or contains no valid data"
InsufficientMessage == "Insufficient data. Please provide at least 5 rows for meaningful analysis."
TextReadMessage == "Failed to parse text file"
ExcelReadMessage == "Failed to read Excel file"
ExcelShortMessage == "Excel file must have at least header and one data row"

\* line 706: the least number of rows validateAndProcessData returns
MinRows == 5

Resolved(rows) == [ok |-> TRUE, msg |-> "", data |-> rows]
Rejected(msg) == [ok |-> FALSE, msg |-> msg, data |-> <<>>]

\* lines 479-495
readTextFile(file) ==
    IF file.readable THEN Resolved(file.rows) ELSE Rejected(TextReadMessage)

\* lines 435-477
readExcelFile(file) ==
    IF ~file.readable THEN Rejected(ExcelReadMessage)
    ELSE IF Len(file.rows) < 1 THEN Rejected(ExcelShortMessage)
    ELSE Resolved(file.rows)

\* line 545: the Date of row index (counted from 0) of data
DateFilling(data) ==
    [i \in 1..Len(data) |->
        IF Truthy(data[i]) THEN data[i] ELSE Day(Today - (Len(data) - (i - 1)))]

\* new Date(date).getTime(): a number, or NaN for text that is no date
GetTime(date) == IF date.k = "day" THEN Num(date.v) ELSE NaN

\* lines 693-695: the comparator, as Array.prototype.sort uses it: a NaN
\* result counts as +0
SortCompare(a, b) ==
    IF GetTime(a).k = "nan" \/ GetTime(b).k = "nan" THEN 0
    ELSE GetTime(a).v - GetTime(b).v

\* the comparator is consistent on the rows (ECMAScript, Array.prototype.sort):
\* comparing equal is transitive.  Two dates that can be read compare equal
\* only if they are the same, and a date that cannot be read compares equal
\* to every date: the comparator is consistent unless some date cannot be
\* read and two others differ.
ConsistentComparator(rows) ==
    (\E j \in 1..Len(rows) : GetTime(rows[j]).k = "nan") =>
        \A i, k \in 1..Len(rows) : SortCompare(rows[i], rows[k]) = 0

\* the place a stable sort gives rows[i]: behind the rows that compare less
\* and the earlier rows that compare equal
SortedPlace(rows, i) ==
    Cardinality({j \in 1..Len(rows) :
                    \/ SortCompare(rows[j], rows[i]) < 0
                    \/ SortCompare(rows[j], rows[i]) = 0 /\ j < i}) + 1

\* the stable sort of the rows
StableSort(rows) ==
    [p \in 1..Len(rows) |->
        rows[CHOOSE i \in 1..Len(rows) : SortedPlace(rows, i) = p]]

\* every order of the rows
Reorderings(rows) ==
    {[i \in 1..Len(rows) |-> rows[p[i]]] : p \in Permutations(1..Len(rows))}

\* lines 693-695: what normalizedData.sort(...) can leave in the array.  With
\* a consistent comparator it is the stable sort; otherwise the order is
\* implementation-defined, and every order is possible.
SortOutcomes(rows) ==
    IF ConsistentComparator(rows) THEN {StableSort(rows)} ELSE Reorderings(rows)

\* the row threshold taken two rows too low
TooFewRowsLowered(sortedData) == Len(sortedData) < MinRows - 2

\* the row threshold with the boundary on the wrong side: five rows count as
\* too few
TooFewRowsInclusive(sortedData) == Len(sortedData) <= MinRows

\* line 706
TooFewRows(sortedData) == Len(sortedData) < MinRows

\* lines 666-711: the results validateAndProcessData(file) can settle with
validateAndProcessData(file) ==
    LET read == IF EndsWith(file.name, "csv") \/ EndsWith(file.name, "txt")
                THEN readTextFile(file) ELSE readExcelFile(file)
    IN  IF ~read.ok THEN {read}
        ELSE IF Len(read.data) = 0 THEN {Rejected(EmptyMessage)}
        ELSE {IF TooFewRows(sortedData) THEN Rejected(InsufficientMessage)
              ELSE Resolved(sortedData) :
                  sortedData \in UNION {SortOutcomes(normalizedData) :
                                            normalizedData \in {DateFilling(read.data)}}}

-----------------------------------------------------------------------------
(* The upload path: FileUpload's handleFileUpload and, behind onFileUpload, *)
(* the page's handleFileUpload.                                              *)

\* the least data.length generatePrediction accepts
MinPredictionRows == 10

\* useState(null) of uploadedData, predictions, enhancedPredictions, trends
Null == [k |-> "null"]

\* the series onFileUpload hands over for the upload numbered u
Series(u, file, data) == [k |-> "series", upload |-> u, name |-> file.name, data |-> data]

\* what generatePredictions, generatePrediction and analyzeTrends return:
\* kept as the series they were computed from
Analysis(kind, series) == [k |-> kind, upload |-> series.upload, name |-> series.name]

\* generatePrediction throws on a short series
PredictionThrows(series) == Len(series.data) < MinPredictionRows

\* the state before any file was handed over
UploadIdle ==
    /\ error = ""
    /\ fileName = <<>>
    /\ isProcessing = FALSE
    /\ columnMappingInfo = <<>>
    /\ uploads = <<>>
    /\ indexIsProcessing = FALSE
    /\ processingStep = ""
    /\ progress = 0
    /\ uploadedData = Null
    /\ predictions = Null
    /\ enhancedPredictions = Null
    /\ trends = Null
    /\ toast = ""

NoFile == [name |-> <<"none">>, big |-> FALSE, readable |-> FALSE, rows |-> <<>>]

IngestIdle ==
    /\ ingestFile = NoFile
    /\ ingestResult = Rejected("")
    /\ ingestPc = "idle"

\* a call of handleFileUpload(file) at position pc
Upload(file, pc) == [file |-> file, pc |-> pc, data |-> <<>>, order |-> 0]

\* FileUpload's handleFileUpload(file) up to its first await
HandleFileUpload(file) ==
    IF ~isFileTypeSupported(file.name)
    THEN /\ error' = UnsupportedMessage
         /\ uploads' = Append(uploads, Upload(file, "rejected"))
         /\ UNCHANGED <<fileName, isProcessing, columnMappingInfo, indexVars>>
    ELSE IF file.big
    THEN /\ error' = MaxFileSizeMessage
         /\ uploads' = Append(uploads, Upload(file, "rejected"))
         /\ UNCHANGED <<fileName, isProcessing, columnMappingInfo, indexVars>>
    ELSE /\ error' = ""
         /\ fileName' = file.name
         /\ isProcessing' = TRUE
         /\ uploads' = Append(uploads, Upload(file, "reading"))
         /\ UNCHANGED <<columnMappingInfo, indexVars>>

\* the page's handleFileUpload(data) storing the data before the analysis
OnFileUploadStoringFirst(data) ==
    /\ indexIsProcessing' = TRUE
    /\ processingStep' = "Enhanced data validation and cleaning..."
    /\ progress' = 15
    /\ uploadedData' = data
    /\ UNCHANGED <<predictions, enhancedPredictions, trends, toast>>

\* the page's handleFileUpload(data) up to its first await
OnFileUpload(data) ==
    /\ indexIsProcessing' = TRUE
    /\ processingStep' = "Enhanced data validation and cleaning..."
    /\ progress' = 15
    /\ UNCHANGED <<resultVars, toast>>

\* the number of analyses begun
AnalysesBegun == Cardinality({u \in DOMAIN uploads : uploads[u].order > 0})

\* the reader of upload u has finished: validateAndProcessData settles and
\* handleFileUpload runs on to its end
ReadComplete(u) ==
    /\ uploads[u].pc = "reading"
    /\ \E result \in validateAndProcessData(uploads[u].file) :
          IF result.ok
          THEN /\ columnMappingInfo' = uploads[u].file.name
               /\ OnFileUpload(Series(u, uploads[u].file, result.data))
               /\ uploads' = [uploads EXCEPT ![u].pc = "step1",
                                             ![u].data = result.data,
                                             ![u].order = AnalysesBegun + 1]
               /\ isProcessing' = FALSE
               /\ UNCHANGED <<error, fileName>>
          ELSE /\ error' = result.msg
               /\ fileName' = <<>>
               /\ columnMappingInfo' = <<>>
               /\ isProcessing' = FALSE
               /\ uploads' = [uploads EXCEPT ![u].pc = "failed"]
               /\ UNCHANGED indexVars
    /\ UNCHANGED otherVars

\* the timer upload u waits on is the next to fire: timers of equal delay
\* fire in the order they were set
TimerDue(u) ==
    \A v \in DOMAIN uploads :
        uploads[v].pc = uploads[u].pc => uploads[v].order >= uploads[u].order

\* the finally block without setProgress(0)
FinallyKeepingProgress ==
    /\ indexIsProcessing' = FALSE
    /\ processingStep' = ""
    /\ progress' = progress

\* the finally block of the page's handleFileUpload
Finally ==
    /\ indexIsProcessing' = FALSE
    /\ processingStep' = ""
    /\ progress' = 0

\* the 1000 ms timer of upload u fires
FeatureEngineering(u) ==
    /\ uploads[u].pc = "step1"
    /\ TimerDue(u)
    /\ processingStep' = "AI-powered feature engineering..."
    /\ progress' = 30
    /\ uploads' = [uploads EXCEPT ![u].pc = "step2"]
    /\ UNCHANGED <<componentVars, indexIsProcessing, resultVars, toast, otherVars>>

\* the 1500 ms timer of upload u fires: the predictors and the trend analysis run
RunModels(u) ==
    /\ uploads[u].pc = "step2"
    /\ TimerDue(u)
    /\ IF PredictionThrows(uploads[u])
       THEN /\ toast' = "Processing Error"
            /\ Finally
            /\ uploads' = [uploads EXCEPT ![u].pc = "error"]
       ELSE /\ processingStep' = "Model validation and confidence scoring..."
            /\ progress' = 85
            /\ uploads' = [uploads EXCEPT ![u].pc = "step5"]
            /\ UNCHANGED <<indexIsProcessing, toast>>
    /\ UNCHANGED <<componentVars, resultVars, otherVars>>

\* the 800 ms timer of upload u fires
Finalizing(u) ==
    /\ uploads[u].pc = "step5"
    /\ TimerDue(u)
    /\ processingStep' = "Finalizing enhanced results..."
    /\ progress' = 100
    /\ uploads' = [uploads EXCEPT ![u].pc = "step6"]
    /\ UNCHANGED <<componentVars, indexIsProcessing, resultVars, toast, otherVars>>

\* the 500 ms timer of upload u fires: the results are stored
Complete(u) ==
    /\ uploads[u].pc = "step6"
    /\ TimerDue(u)
    /\ LET series == Series(u, uploads[u].file, uploads[u].data)
       IN  /\ uploadedData' = series
           /\ predictions' = Analysis("predictions", series)
           /\ enhancedPredictions' = Analysis("enhanced", series)
           /\ trends' = Analysis("trends", series)
    /\ toast' = "Enhanced Analysis Complete"
    /\ Finally
    /\ uploads' = [uploads EXCEPT ![u].pc = "done"]
    /\ UNCHANGED <<componentVars, otherVars>>

\* the number of files the user hands over in a run
MaxUploads == 2

\* the rows of a file with n rows, newest first: dates n, n - 1, .., 1
RowsNewestFirst(n) == [i \in 1..n |-> Day(n + 1 - i)]

\* the rows of a file with n rows and no date column
RowsUndated(n) == [i \in 1..n |-> Missing]

File(name, big, readable, rows) ==
    [name |-> name, big |-> big, readable |-> readable, rows |-> rows]

\* the files the user has at hand
Files ==
    {File(<<"prices", "csv">>, FALSE, TRUE, RowsNewestFirst(MinPredictionRows)),
     File(<<"history", "XLSX">>, FALSE, TRUE, RowsUndated(MinPredictionRows)),
     File(<<"csv">>, FALSE, TRUE, RowsNewestFirst(MinPredictionRows)),
     File(<<"week", "csv">>, FALSE, TRUE, RowsNewestFirst(MinRows)),
     File(<<"empty", "csv">>, FALSE, TRUE, <<>>),
     File(<<"broken", "xls">>, FALSE, FALSE, <<>>),
     File(<<"report", "pdf">>, FALSE, TRUE, RowsNewestFirst(MinPredictionRows)),
     File(<<"ticks", "csv">>, TRUE, TRUE, RowsNewestFirst(MinPredictionRows))}
    \cup {File(<<"short", "txt">>, FALSE, TRUE, RowsNewestFirst(n)) : n \in 1..(MinRows - 1)}

\* the hidden file input changes: it is disabled while the page is processing
\* (a dialog closed without a file calls handleFileUpload(null), which returns)
ChooseFile ==
    /\ ~indexIsProcessing
    /\ Len(uploads) < MaxUploads
    /\ \E file \in Files : HandleFileUpload(file)
    /\ UNCHANGED otherVars

\* a file is dropped on the drop zone
DropFile ==
    /\ Len(uploads) < MaxUploads
    /\ \E file \in Files : HandleFileUpload(file)
    /\ UNCHANGED otherVars

Init ==
    /\ UploadIdle
    /\ IngestIdle
    /\ FillIdle
    /\ MapIdle
    /\ LibIdle

Next ==
    \/ ChooseFile
    \/ DropFile
    \/ \E u \in DOMAIN uploads : ReadComplete(u)
    \/ \E u \in DOMAIN uploads : FeatureEngineering(u)
    \/ \E u \in DOMAIN uploads : RunModels(u)
    \/ \E u \in DOMAIN uploads : Finalizing(u)
    \/ \E u \in DOMAIN uploads : Complete(u)

Spec == Init /\ [][Next]_vars

-----------------------------------------------------------------------------
(* SpecIngest: validateAndProcessData on one file of up to MaxRows rows.     *)

\* the longest file of SpecIngest
MaxRows == 5

\* the date cells of a row: absent, text that is no date, and two dates
DateCells == {Missing, Text, Day(1), Day(2)}

RowSeqs(n) == UNION {[1..m -> DateCells] : m \in 0..n}

IngestInit ==
    /\ ingestFile \in {File(<<"data", "csv">>, FALSE, TRUE, rows) : rows \in RowSeqs(MaxRows)}
    /\ ingestResult = Rejected("")
    /\ ingestPc = "reading"
    /\ UploadIdle
    /\ FillIdle
    /\ MapIdle
    /\ LibIdle

\* the reader has finished and validateAndProcessData settles
ValidateAndProcess ==
    /\ ingestPc = "reading"
    /\ ingestResult' \in validateAndProcessData(ingestFile)
    /\ ingestPc' = "settled"
    /\ UNCHANGED <<ingestFile, fillVars, uploadVars, mapVars, libVars>>

IngestNext == ValidateAndProcess

SpecIngest == IngestInit /\ [][IngestNext]_vars

-----------------------------------------------------------------------------
(* SpecMap: mapColumns called on one header list.                            *)

\* the longest header list of SpecMap
MaxHeaders == 6

\* the longest header list taken in every order
MaxShuffled == 3

PoolHeaders == {HeaderPool[h] : h \in DOMAIN HeaderPool}

\* the lists of up to MaxShuffled different headers of the pool, in every
\* order, and the lists of up to MaxHeaders different headers in the order
\* of the pool and in the opposite order
HeaderLists ==
    LET Reverse(hs) == [i \in DOMAIN hs |-> hs[Len(hs) + 1 - i]]
        InPoolOrder(S) == SelectSeq(HeaderPool, LAMBDA h : h \in S)
    IN  {hs \in UNION {[1..m -> PoolHeaders] : m \in 0..MaxShuffled} :
            \A i, j \in DOMAIN hs : i # j => hs[i] # hs[j]}
        \cup {InPoolOrder(S) : S \in {T \in SUBSET PoolHeaders : Cardinality(T) <= MaxHeaders}}
        \cup {Reverse(InPoolOrder(S)) :
                 S \in {T \in SUBSET PoolHeaders : Cardinality(T) <= MaxHeaders}}

MapInit ==
    /\ headers \in HeaderLists
    /\ mapResult = NoResult
    /\ mapAgain = NoResult
    /\ mapPc = "input"
    /\ LibIdle
    /\ FillIdle
    /\ IngestIdle
    /\ UploadIdle

\* mapColumns(headers) runs
MapColumns ==
    /\ mapPc = "input"
    /\ mapResult' = mapColumns(headers)
    /\ mapPc' = "mapped"
    /\ UNCHANGED <<headers, mapAgain, fillVars, ingestVars, uploadVars, libVars>>

\* mapColumns(headers) runs a second time, after the first call returned
MapColumnsAgain ==
    /\ mapPc = "mapped"
    /\ mapAgain' = mapColumns(headers)
    /\ mapPc' = "again"
    /\ UNCHANGED <<headers, mapResult, fillVars, ingestVars, uploadVars, libVars>>

MapNext == MapColumns \/ MapColumnsAgain

SpecMap == MapInit /\ [][MapNext]_vars

-----------------------------------------------------------------------------
(* SpecFill: enhancedDataFilling applied to one raw row.                     *)

\* the values Math.random() returns, in 1/100: both ends of [0, 1)
RandomValues == {0, 99}

\* the cells of a price column: absent, a negative price, and two positive
\* prices, one of them not a whole number of hundredths
PriceCells == {Missing, Num(-100000), Num(50000), Num(100004)}

\* the cells of a price column that parseFloat(..) || 0 reads as 0 without
\* being absent: text that is not a number and the string "0"
UnreadableCells == {Text, Num(0)}

\* the cells of the other numeric columns: absent, not a number, "0", and a
\* small positive number (0.01 as a price, 10 shares as a volume)
AuxCells == {Missing, Text, Num(0), Num(10)}

\* the cells of the previous-close column
PrevCloseCells == {Missing, Text, Num(0), Num(99500), Num(-100000)}

AuxFields == {"prevClose", "vwap", "volume", "value", "trades",
              "fiftyTwoWeekHigh", "fiftyTwoWeekLow"}

\* rows whose price cells vary, the other columns being absent from the file
PriceRows ==
    {[EmptyRow EXCEPT !.open = o, !.high = h, !.low = l, !.close = c] :
        o \in PriceCells, h \in PriceCells, l \in PriceCells, c \in PriceCells}
    \cup
    {[EmptyRow EXCEPT !.open = o, !.high = h, !.low = l, !.close = c] :
        o \in UnreadableCells \cup {Num(100004)}, h \in UnreadableCells \cup {Num(100004)},
        l \in UnreadableCells \cup {Num(100004)}, c \in UnreadableCells \cup {Num(100004)}}

\* rows with a close of 100.004 or none, in which one other column is supplied
AuxRows ==
    {[[EmptyRow EXCEPT !.close = c] EXCEPT ![f] = a] :
        c \in {Missing, Num(100004)}, f \in AuxFields \ {"prevClose"}, a \in AuxCells}

\* rows with a close of 100.004 or none and a previous-close cell
PrevCloseRows ==
    {[EmptyRow EXCEPT !.close = c, !.prevClose = a] :
        c \in {Missing, Num(100004)}, a \in PrevCloseCells}

\* the row with an open of 100 and no other cell
OpenOnlyRow == [EmptyRow EXCEPT !.open = Num(100000)]

RowContexts ==
    {FirstRowCtx} \cup
    {[later |-> TRUE, hasPrevCol |-> hp, prevRowClose |-> pc] :
        hp \in BOOLEAN, pc \in {Missing, Text, Num(99500)}}

RandomDraws ==
    [gap : RandomValues, hi : RandomValues, lo : RandomValues, prev : RandomValues,
     vol : RandomValues, trade : RandomValues, h52 : RandomValues, l52 : RandomValues]

FillInit ==
    /\ \/ rawRow \in PriceRows \cup AuxRows \cup {OpenOnlyRow} /\ rowCtx = FirstRowCtx
       \/ rawRow \in PrevCloseRows /\ rowCtx \in RowContexts
    /\ normalizedRow = NoRow
    /\ fillPc = "input"
    /\ IngestIdle
    /\ UploadIdle
    /\ MapIdle
    /\ LibIdle

\* the callback of data.map runs on the row
EnhancedDataFilling ==
    /\ fillPc = "input"
    /\ \E rnd \in RandomDraws : normalizedRow' = FillRow(rawRow, rowCtx, rnd)
    /\ fillPc' = "filled"
    /\ UNCHANGED <<rawRow, rowCtx, ingestVars, uploadVars, mapVars, libVars>>

FillNext == EnhancedDataFilling

SpecFill == FillInit /\ [][FillNext]_vars

-----------------------------------------------------------------------------
(* EnhancedColumnMapper.validateMappings (src/src/utils/columnMapper.ts,     *)
(* lines 304-331).  The mappings it is given are a function from the        *)
(* standard names that are mapped to [originalName, confidence]; the keys   *)
(* are visited in the order of COLUMN_DEFINITIONS, the order in which       *)
(* mapColumns inserts them.  An issue is a record, not the message text.    *)

\* lines 306-308: the names of the required definitions, in order
requiredColumns ==
    LET required == SelectSeq(COLUMN_DEFINITIONS, LAMBDA definition : definition.required)
    IN  [i \in DOMAIN required |-> required[i].name]

\* line 314 with the boundary on the wrong side: a confidence of 0.6 itself
\* counts as low
LowConfidenceInclusive(confidence) == ~Greater(confidence, Frac(6, 10))

\* line 314: mappings[required].confidence < 0.6
LowConfidence(confidence) == Greater(Frac(6, 10), confidence)

\* lines 304-331
validateMappings(mappings) ==
    LET IssueOf(required) ==
            IF required \notin DOMAIN mappings
            THEN <<[kind |-> "Missing required column", names |-> <<required>>]>>
            ELSE IF LowConfidence(mappings[required].confidence)
            THEN <<[kind |-> "Low confidence mapping for required column",
                    names |-> <<required>>]>>
            ELSE <<>>
        RECURSIVE RequiredIssues(_)
        RequiredIssues(i) ==
            IF i = 0 THEN <<>> ELSE RequiredIssues(i - 1) \o IssueOf(requiredColumns[i])
        keys == SelectSeq([f \in DOMAIN COLUMN_DEFINITIONS |-> COLUMN_DEFINITIONS[f].name],
                          LAMBDA name : name \in DOMAIN mappings)
        originalNames == [i \in DOMAIN keys |-> mappings[keys[i]].originalName]
        indexOf(name) == CHOOSE i \in DOMAIN originalNames :
                             /\ originalNames[i] = name
                             /\ \A j \in 1..(i - 1) : originalNames[j] # name
        duplicateAt == SelectSeq([i \in DOMAIN originalNames |-> i],
                                 LAMBDA i : indexOf(originalNames[i]) # i)
        duplicates == [k \in DOMAIN duplicateAt |-> originalNames[duplicateAt[k]]]
        issues == RequiredIssues(Len(requiredColumns)) \o
                  (IF Len(duplicates) > 0
                   THEN <<[kind |-> "Duplicate column mappings", names |-> duplicates]>>
                   ELSE <<>>)
    IN  [isValid |-> Len(issues) = 0, issues |-> issues]

\* the fields of the mappings validateMappings is given: the required ones
\* and one optional one
ValidatedFields == {"date", "open", "high", "low", "close", "volume", "prevClose"}

\* the header a field is mapped to when it has a header of its own
OwnHeader ==
    [date |-> HeaderPool[1], open |-> HeaderPool[2], high |-> HeaderPool[3],
     low |-> HeaderPool[4], close |-> HeaderPool[5], volume |-> HeaderPool[6],
     prevClose |-> HeaderPool[7]]

\* what a field can be mapped to: its own header with a confidence of 1.0,
\* of 0.6 or of 0.5, or the header Close with a confidence of 0.9
MappingChoices(name) ==
    {[originalName |-> OwnHeader[name], confidence |-> c] :
        c \in {Frac(1, 1), Frac(6, 10), Frac(5, 10)}}
    \cup {[originalName |-> OwnHeader.close, confidence |-> Frac(9, 10)]}

\* the field has no mapping
Absent == [originalName |-> <<>>, confidence |-> Frac(0, 1)]

\* the mappings validateMappings is given: each field absent or mapped in
\* one of the ways
MappingsGiven ==
    LET Choice(name) == MappingChoices(name) \cup {Absent}
    IN  {[name \in {n \in ValidatedFields : given[n] # Absent} |-> given[name]] :
            given \in [date : Choice("date"), open : Choice("open"),
                       high : Choice("high"), low : Choice("low"),
                       close : Choice("close"), volume : Choice("volume"),
                       prevClose : Choice("prevClose")]}

ValidateInit ==
    /\ libInput \in MappingsGiven
    /\ libOutput = <<>>
    /\ libPc = "input"
    /\ FillIdle
    /\ IngestIdle
    /\ UploadIdle
    /\ MapIdle

\* validateMappings(libInput) runs
ValidateMappings ==
    /\ libPc = "input"
    /\ libOutput' = validateMappings(libInput)
    /\ libPc' = "returned"
    /\ UNCHANGED <<libInput, fillVars, ingestVars, uploadVars, mapVars>>

ValidateNext == ValidateMappings

SpecValidate == ValidateInit /\ [][ValidateNext]_vars

-----------------------------------------------------------------------------
(* EnhancedNumberParser (src/src/utils/numberParser.ts).  A number is a     *)
(* record [k, v] as above, v counted in thousandths; the numbers in use     *)
(* stay below 2^31 / 1000, so the test `num > 1e10` of validateNumber is    *)
(* never true of them.  A string is a sequence of one-character strings; a  *)
(* currency symbol is one character, written by its name.  A raw value is   *)
(* [t |-> "null"] (null, undefined), [t |-> "number", x] or                 *)
(* [t |-> "string", s].  Number.prototype.toLocaleString() prints in the    *)
(* default locale of the machine, which is an input of formatNumber.        *)

Digits == <<"0", "1", "2", "3", "4", "5", "6", "7", "8", "9">>

IsDigit(c) == \E i \in DOMAIN Digits : Digits[i] = c

DigitValue(c) == (CHOOSE i \in DOMAIN Digits : Digits[i] = c) - 1

\* String.prototype.slice(from - 1, to): the characters from..to that exist
Slice(str, from, to) ==
    IF from > Min(to, Len(str)) THEN <<>> ELSE SubSeq(str, from, Min(to, Len(str)))

\* the digits that write a number n >= 0
RECURSIVE DigitsOf(_)
DigitsOf(n) ==
    IF n < 10 THEN <<Digits[n + 1]>> ELSE DigitsOf(n \div 10) \o <<Digits[(n % 10) + 1]>>

RECURSIVE Pow10(_)
Pow10(e) == IF e = 0 THEN 1 ELSE 10 * Pow10(e - 1)

\* What a reader of decimal numbers knows after the first i characters of
\* str: the part it is in ("done" once a character fits nowhere), the sign,
\* the lengths of the groups of digits before the point (one group, or more
\* where commas separate them), the digits before and after the point as one
\* number, how many follow the point, and the exponent.
RECURSIVE Scanned(_, _, _)
Scanned(str, i, commas) ==
    IF i = 0
    THEN [phase |-> "start", signed |-> FALSE, negative |-> FALSE, groups |-> <<0>>,
          mantissa |-> 0, digits |-> 0, decimals |-> 0,
          expNegative |-> FALSE, exponent |-> 0]
    ELSE LET before == Scanned(str, i - 1, commas)
             c == str[i]
         IN  CASE before.phase = "done" -> before
               [] IsDigit(c) /\ before.phase \in {"start", "sign", "int"} ->
                    [before EXCEPT !.phase = "int",
                                   !.mantissa = 10 * @ + DigitValue(c),
                                   !.digits = @ + 1,
                                   !.groups[Len(before.groups)] = @ + 1]
               [] IsDigit(c) /\ before.phase \in {"point", "fraction"} ->
                    [before EXCEPT !.phase = "fraction",
                                   !.mantissa = 10 * @ + DigitValue(c),
                                   !.digits = @ + 1,
                                   !.decimals = @ + 1]
               [] IsDigit(c) /\ before.phase \in {"e", "expSign", "exponent"} ->
                    [before EXCEPT !.phase = "exponent",
                                   !.exponent = 10 * @ + DigitValue(c)]
               [] c \in {"+", "-"} /\ before.phase = "start" ->
                    [before EXCEPT !.phase = "sign", !.signed = TRUE,
                                   !.negative = (c = "-")]
               [] c \in {"+", "-"} /\ before.phase = "e" ->
                    [before EXCEPT !.phase = "expSign", !.expNegative = (c = "-")]
               [] c = "." /\ before.phase \in {"start", "sign", "int"} ->
                    [before EXCEPT !.phase = "point"]
               [] c \in {"e", "E"} /\ before.phase \in {"int", "point", "fraction"}
                  /\ before.digits > 0 ->
                    [before EXCEPT !.phase = "e"]
               [] commas /\ c = "," /\ before.phase = "int" ->
                    [before EXCEPT !.groups = Append(@, 0)]
               [] OTHER -> [before EXCEPT !.phase = "done"]

\* parseFloat of a string: leading blanks, a sign, digits with a point, an
\* exponent; what follows is ignored; NaN without a digit.  The value is in
\* thousandths, further decimals being dropped.
TextToNumber(str) ==
    LET read == Scanned(Trim(str), Len(Trim(str)), FALSE)
        unsigned == IF read.signed THEN Tail(Trim(str)) ELSE Trim(str)
        shift == (IF read.expNegative THEN -read.exponent ELSE read.exponent)
                 - read.decimals + 3
        magnitude == IF shift >= 0 THEN read.mantissa * Pow10(shift)
                     ELSE read.mantissa \div Pow10(-shift)
    IN  IF Slice(unsigned, 1, 8) = <<"I", "n", "f", "i", "n", "i", "t", "y">>
        THEN (IF read.negative THEN NegInf ELSE PosInf)
        ELSE IF read.digits = 0 THEN NaN
        ELSE Num(IF read.negative THEN -magnitude ELSE magnitude)

\* line 16
CURRENCY_SYMBOLS == {"rupee", "$", "euro", "pound", "yen", "rouble"}

\* lines 17-26: the patterns, in order
NUMBER_PATTERNS ==
    <<[type |-> "standard", confidence |-> Frac(9, 10)],
      [type |-> "indian", confidence |-> Frac(85, 100)],
      [type |-> "scientific", confidence |-> Frac(8, 10)],
      [type |-> "simple", confidence |-> Frac(7, 10)]>>

\* lines 19-25: str matches the regular expression of the pattern.  str
\* holds no currency symbol and starts with no blank, so the optional symbol
\* and blanks of the expressions match nothing and the group is all of str.
Matches(type, str) ==
    LET read == Scanned(str, Len(str), TRUE)
        n == Len(read.groups)
    IN  /\ ~read.signed
        /\ CASE type = "standard" ->
                    /\ read.phase \in {"int", "fraction"}
                    /\ read.groups[1] \in 1..3
                    /\ \A i \in 2..n : read.groups[i] = 3
             [] type = "indian" ->
                    /\ read.phase \in {"int", "fraction"}
                    /\ read.groups[1] \in 1..2
                    /\ \A i \in 2..(n - 1) : read.groups[i] = 2
                    /\ n > 1 => read.groups[n] \in {2, 3}
             [] type = "scientific" ->
                    /\ read.phase = "exponent"
                    /\ n = 1
                    /\ read.groups[1] >= 1
             [] type = "simple" ->
                    /\ read.phase \in {"int", "point", "fraction"}
                    /\ n = 1
                    /\ read.groups[1] >= 1

\* line 95-97, without originalValue
createResult(value, isValid, confidence, formatted) ==
    [value |-> value, isValid |-> isValid, confidence |-> confidence,
     formatted |-> formatted]

\* lines 99-124
validateNumber(num, context) ==
    CASE context = "price" ->
            IF num < 0 THEN [isValid |-> FALSE, confidence |-> Frac(0, 1)]
            ELSE IF num > 100000000 THEN [isValid |-> TRUE, confidence |-> Frac(7, 10)]
            ELSE IF num < 10 THEN [isValid |-> TRUE, confidence |-> Frac(6, 10)]
            ELSE [isValid |-> TRUE, confidence |-> Frac(9, 10)]
      [] context = "volume" ->
            IF num < 0 THEN [isValid |-> FALSE, confidence |-> Frac(0, 1)]
            ELSE IF num % 1000 # 0 THEN [isValid |-> TRUE, confidence |-> Frac(7, 10)]
            ELSE [isValid |-> TRUE, confidence |-> Frac(9, 10)]
      [] context = "percentage" ->
            IF Abs(num) > 50000 THEN [isValid |-> TRUE, confidence |-> Frac(5, 10)]
            ELSE IF Abs(num) > 20000 THEN [isValid |-> TRUE, confidence |-> Frac(7, 10)]
            ELSE [isValid |-> TRUE, confidence |-> Frac(9, 10)]

\* num.toFixed(2) as text; a negative number keeps its sign when it rounds
\* to zero
ToFixed2Text(num) ==
    LET hundredths == Abs(ToFixed2Q(num, 1).v) \div 10
    IN  (IF num < 0 THEN <<"-">> ELSE <<>>)
        \o DigitsOf(hundredths \div 100) \o <<".">>
        \o <<Digits[((hundredths % 100) \div 10) + 1], Digits[(hundredths % 10) + 1]>>

\* the locales a machine can have as its default
Locales == {"en-US", "de-DE", "en-IN"}

\* digits in groups: the last group of `last` digits, the ones before it of
\* `others` digits
RECURSIVE Grouped(_, _, _, _)
Grouped(digits, sep, last, others) ==
    IF Len(digits) <= last THEN digits
    ELSE Grouped(Slice(digits, 1, Len(digits) - last), sep, others, others)
         \o <<sep>> \o Slice(digits, Len(digits) - last + 1, Len(digits))

\* n.toLocaleString() for a whole number n: 1,234,567 in en-US, 1.234.567
\* in de-DE, 12,34,567 in en-IN
ToLocaleString(n, locale) ==
    (IF n < 0 THEN <<"-">> ELSE <<>>)
    \o CASE locale = "en-US" -> Grouped(DigitsOf(Abs(n)), ",", 3, 3)
         [] locale = "de-DE" -> Grouped(DigitsOf(Abs(n)), ".", 3, 3)
         [] locale = "en-IN" -> Grouped(DigitsOf(Abs(n)), ",", 3, 2)

\* lines 126-137
formatNumber(num, context, locale) ==
    CASE context = "price" -> ToFixed2Text(num)
      [] context = "volume" -> ToLocaleString(FloorDiv(num, 1000), locale)
      [] context = "percentage" -> ToFixed2Text(num) \o <<"%">>

\* the raw values: null or undefined, a number, a string
NullValue == [t |-> "null"]
NumberValue(x) == [t |-> "number", x |-> x]
StringValue(s) == [t |-> "string", s |-> s]

\* '0.00'
ZeroText == <<"0", ".", "0", "0">>

\* lines 76-92: the fallback, parseFloat(value.toString())
FallbackParse(str, context, locale) ==
    LET fallback == TextToNumber(str)
    IN  IF IsNum(fallback)
        THEN LET validated == validateNumber(fallback.v, context)
             IN  createResult(fallback, validated.isValid,
                              Times(Frac(3, 10), validated.confidence),
                              formatNumber(fallback.v, context, locale))
        ELSE createResult(Num(0), FALSE, Frac(0, 1), ZeroText)

\* lines 28-93
parseNumber(value, context, locale) ==
    IF value.t = "null" \/ (value.t = "string" /\ value.s = <<>>)
    THEN createResult(Num(0), FALSE, Frac(0, 1), ZeroText)
    ELSE IF value.t = "number"
    THEN IF ~IsNum(value.x)
         THEN createResult(Num(0), FALSE, Frac(0, 1), ZeroText)
         ELSE createResult(value.x, TRUE, Frac(1, 1),
                           formatNumber(value.x.v, context, locale))
    ELSE LET cleanValue == Trim(value.s)
             processedValue == Trim(SelectSeq(cleanValue, LAMBDA c : c \notin CURRENCY_SYMBOLS))
             numStr == SelectSeq(processedValue, LAMBDA c : c # ",")
             parsed == TextToNumber(numStr)
             matching == {p \in DOMAIN NUMBER_PATTERNS :
                             Matches(NUMBER_PATTERNS[p].type, processedValue)}
         IN  IF matching # {} /\ IsNum(parsed)
             THEN LET pattern == NUMBER_PATTERNS[CHOOSE p \in matching :
                                                    \A q \in matching : p <= q]
                      validated == validateNumber(parsed.v, context)
                  IN  createResult(parsed, validated.isValid,
                                   Times(pattern.confidence, validated.confidence),
                                   formatNumber(parsed.v, context, locale))
             ELSE FallbackParse(value.s, context, locale)

\* a - b on confidences
Minus(a, b) == Plus(a, Frac(-b.n, b.d))

\* the test of line 171 with the upper bound left out
OutlyingBelow(value, q1, q3) == 2 * value < 2 * q1 - 3 * (q3 - q1)

\* lines 163-171: value lies below q1 - 1.5 * iqr or above q3 + 1.5 * iqr
Outlying(value, q1, q3) ==
    \/ 2 * value < 2 * q1 - 3 * (q3 - q1)
    \/ 2 * value > 2 * q3 + 3 * (q3 - q1)

\* lines 139-179, without stdDev (a square root).  mean and median are
\* fractions of thousandths.
calculateStatistics(numbers) ==
    LET validNumbers == SelectSeq(numbers, LAMBDA n : n.isValid /\ IsNum(n.value))
        count == Len(validNumbers)
        values == [i \in 1..count |-> validNumbers[i].value.v]
        RECURSIVE Sum(_)
        Sum(i) == IF i = 0 THEN 0 ELSE Sum(i - 1) + values[i]
        RECURSIVE Inserted(_, _)
        Inserted(sorted, v) ==
            IF sorted = <<>> \/ sorted[Len(sorted)] <= v THEN Append(sorted, v)
            ELSE Append(Inserted(SubSeq(sorted, 1, Len(sorted) - 1), v), sorted[Len(sorted)])
        RECURSIVE Sorted(_)
        Sorted(i) == IF i = 0 THEN <<>> ELSE Inserted(Sorted(i - 1), values[i])
        sortedValues == Sorted(count)
        median == IF count % 2 = 0
                  THEN Frac(sortedValues[count \div 2] + sortedValues[(count \div 2) + 1], 2)
                  ELSE Frac(sortedValues[(count \div 2) + 1], 1)
        q1 == sortedValues[(count \div 4) + 1]
        q3 == sortedValues[((3 * count) \div 4) + 1]
        outliers == SelectSeq(validNumbers, LAMBDA n : Outlying(n.value.v, q1, q3))
        RECURSIVE ConfidenceSum(_)
        ConfidenceSum(i) ==
            IF i = 0 THEN Frac(0, 1)
            ELSE Plus(ConfidenceSum(i - 1), validNumbers[i].confidence)
        avgConfidence == Times(ConfidenceSum(count), Frac(1, count))
        outlierFraction == Frac(Len(outliers), count)
        outlierPenalty == IF Greater(outlierFraction, Frac(3, 10))
                          THEN Frac(3, 10) ELSE outlierFraction
        lowered == Minus(avgConfidence, outlierPenalty)
    IN  IF count = 0
        THEN [mean |-> Frac(0, 1), median |-> Frac(0, 1), outliers |-> <<>>,
              confidence |-> Frac(0, 1)]
        ELSE [mean |-> Frac(Sum(count), count), median |-> median,
              outliers |-> outliers,
              confidence |-> IF Greater(lowered, Frac(1, 10)) THEN lowered
                             ELSE Frac(1, 10)]

Contexts == {"price", "volume", "percentage"}

\* the numbers parseNumber is given: -5.5, -0.004, 0, 0.004, 0.005, 5.5, 10,
\* 1234.565, 123456.789 and 100000.5, and NaN and Infinity
NumbersGiven ==
    {NumberValue(Num(x)) :
        x \in {-5500, -4, 0, 4, 5, 5500, 10000, 1234565, 123456789, 100000500}}
    \cup {NumberValue(NaN), NumberValue(PosInf)}

\* the strings parseNumber is given
StringsGiven ==
    {StringValue(s) :
        s \in {<<>>, <<"1", "0">>,
               <<"1", ",", "2", "3", "4", ".", "5", "6">>,
               <<"1", ",", "2", "3", ",", "4", "5", "6", ".", "7">>,
               <<"1", ".", "5", "e", "3">>,
               <<"1", "2", "3", "4", ".", "5">>,
               <<"1", "2", "3", ".", "4", "5", "6">>,
               <<"rupee", " ", "1", "0", "0">>,
               <<"-", "5", ".", "5", "0">>,
               <<"$", "-", "5">>,
               <<"5", ".", "5", "0", "%">>,
               <<"n", "/", "a">>}}

\* the longest list calculateStatistics is given
MaxNumbers == 5

\* the values of the lists calculateStatistics is given: the numbers 9, 10,
\* 11, 12 and 1000, the string "10", and NaN, which parses as invalid
ValuesListed ==
    {NumberValue(Num(x)) : x \in {9000, 10000, 11000, 12000, 1000000}}
    \cup {StringValue(<<"1", "0">>), NumberValue(NaN)}

NumberInit ==
    /\ \/ libInput \in [fn : {"parseNumber"}, value : NumbersGiven \cup StringsGiven \cup {NullValue},
                        context : Contexts, locale : Locales]
       \/ libInput \in [fn : {"calculateStatistics"},
                        values : UNION {[1..n -> ValuesListed] : n \in 0..MaxNumbers},
                        context : {"price"}, locale : {"en-US"}]
    /\ libOutput = <<>>
    /\ libPc = "input"
    /\ FillIdle
    /\ IngestIdle
    /\ UploadIdle
    /\ MapIdle

\* parseNumber(value, context) runs
ParseNumber ==
    /\ libPc = "input"
    /\ libInput.fn = "parseNumber"
    /\ libOutput' = <<parseNumber(libInput.value, libInput.context, libInput.locale)>>
    /\ libPc' = "returned"
    /\ UNCHANGED <<libInput, fillVars, ingestVars, uploadVars, mapVars>>

\* parseNumber runs on the formatted field of the result before, in the
\* same context
ParseFormatted ==
    /\ libPc = "returned"
    /\ libInput.fn = "parseNumber"
    /\ libOutput' = Append(libOutput,
                           parseNumber(StringValue(libOutput[1].formatted),
                                       libInput.context, libInput.locale))
    /\ libPc' = "reparsed"
    /\ UNCHANGED <<libInput, fillVars, ingestVars, uploadVars, mapVars>>

\* each value is parsed with parseNumber and calculateStatistics runs on
\* the results
CalculateStatistics ==
    /\ libPc = "input"
    /\ libInput.fn = "calculateStatistics"
    /\ libOutput' =
           <<calculateStatistics(
                 [i \in DOMAIN libInput.values |->
                     parseNumber(libInput.values[i], libInput.context, libInput.locale)])>>
    /\ libPc' = "returned"
    /\ UNCHANGED <<libInput, fillVars, ingestVars, uploadVars, mapVars>>

NumberNext == ParseNumber \/ ParseFormatted \/ CalculateStatistics

SpecNumber == NumberInit /\ [][NumberNext]_vars

-----------------------------------------------------------------------------
(* EnhancedDateParser (src/unnamed/part_005, lines 551-692).  A Date is the *)
(* record [year, month, day] of its local components, month counted from 0  *)
(* as in JavaScript.  The clock is an input: the local and the UTC date of  *)
(* now, and whether local time is ahead of UTC, in which case local         *)
(* midnight falls on the UTC day before.  What new Date(text) makes of a    *)
(* text that is not in the format of toISOString is left to the engine, and *)
(* is an input of parseDate as well.                                        *)

DateOn(year, month, day) == [year |-> year, month |-> month, day |-> day]

\* the days of a month, month -1 being December and 12 January
DaysInMonth(year, month) ==
    IF (month + 12) % 12 = 1
    THEN (IF year % 4 = 0 /\ (year % 100 # 0 \/ year % 400 = 0) THEN 29 ELSE 28)
    ELSE IF (month + 12) % 12 \in {3, 5, 8, 10} THEN 30
    ELSE 31

\* new Date(year, month, day): a year 0..99 counts from 1900, and a month or
\* a day out of range carries over
RECURSIVE NewDate(_, _, _)
NewDate(year, month, day) ==
    IF year \in 0..99 THEN NewDate(1900 + year, month, day)
    ELSE IF month > 11 THEN NewDate(year + 1, month - 12, day)
    ELSE IF month < 0 THEN NewDate(year - 1, month + 12, day)
    ELSE IF day < 1 THEN NewDate(year, month - 1, day + DaysInMonth(year, month - 1))
    ELSE IF day > DaysInMonth(year, month)
    THEN NewDate(year, month + 1, day - DaysInMonth(year, month))
    ELSE DateOn(year, month, day)

\* n written with at least `width` digits
Padded(n, width) ==
    [i \in 1..(width - Len(DigitsOf(n))) |-> "0"] \o DigitsOf(n)

\* date.toISOString().split('T')[0] for a date at local midnight: the UTC
\* day, which is the day before when local time is ahead of UTC
IsoDay(date, ahead) ==
    LET utc == IF ahead THEN NewDate(date.year, date.month, date.day - 1) ELSE date
    IN  Padded(utc.year, 4) \o <<"-">> \o Padded(utc.month + 1, 2) \o <<"-">>
        \o Padded(utc.day, 2)

\* lines 552-563 with the two slash formats in the other order
DATE_FORMATS_MonthFirst ==
    <<[type |-> "DD-MMM-YY", confidence |-> Frac(9, 10)],
      [type |-> "DD-MMM-YYYY", confidence |-> Frac(95, 100)],
      [type |-> "YYYY-MM-DD", confidence |-> Frac(85, 100)],
      [type |-> "MM/DD/YYYY", confidence |-> Frac(6, 10)],
      [type |-> "DD/MM/YYYY", confidence |-> Frac(7, 10)]>>

\* lines 552-563: the formats, in order
DATE_FORMATS ==
    <<[type |-> "DD-MMM-YY", confidence |-> Frac(9, 10)],
      [type |-> "DD-MMM-YYYY", confidence |-> Frac(95, 100)],
      [type |-> "YYYY-MM-DD", confidence |-> Frac(85, 100)],
      [type |-> "DD/MM/YYYY", confidence |-> Frac(7, 10)],
      [type |-> "MM/DD/YYYY", confidence |-> Frac(6, 10)]>>

\* lines 565-568: the month names, January first
MONTH_MAP ==
    <<<<"j", "a", "n">>, <<"f", "e", "b">>, <<"m", "a", "r">>, <<"a", "p", "r">>,
      <<"m", "a", "y">>, <<"j", "u", "n">>, <<"j", "u", "l">>, <<"a", "u", "g">>,
      <<"s", "e", "p">>, <<"o", "c", "t">>, <<"n", "o", "v">>, <<"d", "e", "c">>>>

\* MONTH_MAP[name]; -1 stands for undefined
MonthNamed(name) ==
    IF \E m \in DOMAIN MONTH_MAP : MONTH_MAP[m] = name
    THEN (CHOOSE m \in DOMAIN MONTH_MAP : MONTH_MAP[m] = name) - 1
    ELSE -1

\* the parts of the first i characters of str that sep separates
RECURSIVE Fields(_, _, _)
Fields(str, sep, i) ==
    IF i = 0 THEN <<<<>>>>
    ELSE LET before == Fields(str, sep, i - 1)
         IN  IF str[i] = sep THEN Append(before, <<>>)
             ELSE [before EXCEPT ![Len(before)] = Append(@, str[i])]

\* \d{a,b} with lengths = a..b
IsNumeral(str, lengths) ==
    Len(str) \in lengths /\ \A i \in DOMAIN str : IsDigit(str[i])

\* lines 553-562: the groups of str.match(regex) for the format, <<>> for
\* no match
MatchOf(type, str) ==
    LET groups == Fields(str, IF type \in {"DD/MM/YYYY", "MM/DD/YYYY"} THEN "/" ELSE "-",
                         Len(str))
    IN  IF /\ Len(groups) = 3
           /\ CASE type = "DD-MMM-YY" ->
                      /\ IsNumeral(groups[1], 1..2)
                      /\ Len(groups[2]) = 3
                      /\ \A i \in 1..3 : \E l \in DOMAIN LowerCaseLetters :
                             LowerCaseLetters[l] = LowerChar(groups[2][i])
                      /\ IsNumeral(groups[3], {2})
                [] type = "DD-MMM-YYYY" ->
                      /\ IsNumeral(groups[1], 1..2)
                      /\ Len(groups[2]) = 3
                      /\ \A i \in 1..3 : \E l \in DOMAIN LowerCaseLetters :
                             LowerCaseLetters[l] = LowerChar(groups[2][i])
                      /\ IsNumeral(groups[3], {4})
                [] type = "YYYY-MM-DD" ->
                      /\ IsNumeral(groups[1], {4})
                      /\ IsNumeral(groups[2], 1..2)
                      /\ IsNumeral(groups[3], 1..2)
                [] type \in {"DD/MM/YYYY", "MM/DD/YYYY"} ->
                      /\ IsNumeral(groups[1], 1..2)
                      /\ IsNumeral(groups[2], 1..2)
                      /\ IsNumeral(groups[3], {4})
        THEN groups
        ELSE <<>>

\* parseInt of a string of digits
ParseInt(str) == Scanned(str, Len(str), FALSE).mantissa

\* lines 572-578, 610-616, 685-690: the current date, not valid
NoDate(now) ==
    [date |-> now.local, formatted |-> IsoDay(now.utc, FALSE), isValid |-> FALSE,
     confidence |-> Frac(0, 1)]

\* lines 620-692
parseWithFormat(match, type, now) ==
    LET day == ParseInt(match[IF type = "YYYY-MM-DD" THEN 3
                              ELSE IF type = "MM/DD/YYYY" THEN 2 ELSE 1])
        month == CASE type \in {"DD-MMM-YY", "DD-MMM-YYYY"} ->
                          MonthNamed(Lowercase(match[2]))
                   [] type = "MM/DD/YYYY" -> ParseInt(match[1]) - 1
                   [] OTHER -> ParseInt(match[2]) - 1
        year == CASE type = "DD-MMM-YY" ->
                         IF ParseInt(match[3]) < 50 THEN 2000 + ParseInt(match[3])
                         ELSE 1900 + ParseInt(match[3])
                  [] type = "YYYY-MM-DD" -> ParseInt(match[1])
                  [] OTHER -> ParseInt(match[3])
    IN  IF month < 0 \/ month > 11 THEN NoDate(now)
        ELSE IF NewDate(year, month, day) # DateOn(year, month, day) THEN NoDate(now)
        ELSE IF Abs(now.local.year - year) > 50 THEN NoDate(now)
        ELSE [date |-> DateOn(year, month, day),
              formatted |-> IsoDay(DateOn(year, month, day), now.ahead),
              isValid |-> TRUE,
              confidence |-> Frac(8, 10)]

\* new Date(text) gave no date
NotADate == [local |-> DateOn(0, 0, 0), utc |-> DateOn(0, 0, 0), known |-> FALSE]

\* lines 570-618; fallback is what new Date(cleanDateStr) gives
parseDate(dateStr, now, fallback) ==
    LET parsed == [f \in DOMAIN DATE_FORMATS |->
                      IF MatchOf(DATE_FORMATS[f].type, Trim(dateStr)) = <<>>
                      THEN NoDate(now)
                      ELSE parseWithFormat(MatchOf(DATE_FORMATS[f].type, Trim(dateStr)),
                                           DATE_FORMATS[f].type, now)]
        valid == {f \in DOMAIN DATE_FORMATS : parsed[f].isValid}
    IN  IF Trim(dateStr) = <<>> THEN NoDate(now)
        ELSE IF valid # {}
        THEN [parsed[CHOOSE f \in valid : \A g \in valid : f <= g] EXCEPT
                  !.confidence = DATE_FORMATS[CHOOSE f \in valid :
                                                  \A g \in valid : f <= g].confidence]
        ELSE IF fallback.known
        THEN [date |-> fallback.local, formatted |-> IsoDay(fallback.utc, FALSE),
              isValid |-> TRUE, confidence |-> Frac(4, 10)]
        ELSE NoDate(now)

\* the texts parseDate is given
DatesGiven ==
    {<<"1", "1", "-", "J", "u", "l", "-", "2", "5">>,
     <<"1", "1", "-", "J", "u", "l", "-", "2", "0", "2", "5">>,
     <<"2", "0", "2", "5", "-", "0", "7", "-", "1", "1">>,
     <<"1", "1", "/", "0", "7", "/", "2", "0", "2", "5">>,
     <<"0", "7", "/", "1", "3", "/", "2", "0", "2", "5">>,
     <<"1", "3", "/", "0", "7", "/", "2", "0", "2", "5">>,
     <<"1", "3", "/", "1", "3", "/", "2", "0", "2", "5">>,
     <<"3", "1", "-", "J", "u", "n", "-", "2", "0", "2", "5">>,
     <<"2", "9", "-", "F", "e", "b", "-", "2", "0", "2", "4">>,
     <<"2", "9", "-", "F", "e", "b", "-", "2", "5">>,
     <<"0", "-", "J", "u", "l", "-", "2", "5">>,
     <<"1", "1", "-", "J", "U", "L", "-", "7", "6">>,
     <<"1", "1", "-", "j", "u", "l", "-", "4", "9">>,
     <<"1", "1", "-", "J", "u", "l", "-", "5", "0">>,
     <<"1", "1", "-", "X", "y", "z", "-", "2", "5">>,
     <<"0", "0", "2", "5", "-", "0", "7", "-", "1", "1">>,
     <<"2", "0", "2", "6", "-", "1", "-", "1">>,
     <<"1", "/", "1", "/", "2", "0", "2", "6">>,
     <<" ", "1", "1", "-", "J", "u", "l", "-", "2", "5", " ">>,
     <<"J", "u", "l", "y", " ", "1", "1", ",", " ", "2", "0", "2", "5">>,
     <<"n", "/", "a">>,
     <<" ", " ">>,
     <<>>}

\* the clocks: a day in November 2026 in a zone not ahead of UTC and in one
\* ahead of it, the first hours of 2027 in a zone ahead, and the last hours
\* of 2025 in a zone behind
Clocks ==
    {[local |-> DateOn(2026, 10, 5), utc |-> DateOn(2026, 10, 5), ahead |-> FALSE],
     [local |-> DateOn(2026, 10, 5), utc |-> DateOn(2026, 10, 5), ahead |-> TRUE],
     [local |-> DateOn(2027, 0, 1), utc |-> DateOn(2026, 11, 31), ahead |-> TRUE],
     [local |-> DateOn(2025, 11, 31), utc |-> DateOn(2026, 0, 1), ahead |-> FALSE]}

\* what new Date(text) can give: no date, or a date read off the text
DatesRead ==
    {NotADate,
     [local |-> DateOn(2025, 6, 11), utc |-> DateOn(2025, 6, 11), known |-> TRUE],
     [local |-> DateOn(2025, 6, 11), utc |-> DateOn(2025, 6, 10), known |-> TRUE]}

DateInit ==
    /\ libInput \in [fn : {"parseDate"}, dateStr : DatesGiven, now : Clocks]
    /\ libOutput = <<>>
    /\ libPc = "input"
    /\ FillIdle
    /\ IngestIdle
    /\ UploadIdle
    /\ MapIdle

\* parseDate(dateStr) runs
ParseDate ==
    /\ libPc = "input"
    /\ libInput.fn = "parseDate"
    /\ \E fallback \in DatesRead :
           libOutput' = <<parseDate(libInput.dateStr, libInput.now, fallback)>>
    /\ libPc' = "returned"
    /\ UNCHANGED <<libInput, fillVars, ingestVars, uploadVars, mapVars>>

DateNext == ParseDate

SpecDate == DateInit /\ [][DateNext]_vars

-----------------------------------------------------------------------------
(* SpecLive: the upload path with its scheduling.  The page mounts one of   *)
(* the two upload components of FileUpload.tsx: the spreadsheet-capable one  *)
(* modelled above, or the one that reads CSV files only (lines 48-332),     *)
(* whose uploads carry the field csvOnly.  A file reader calls one of its    *)
(* callbacks in the end and a timer that was set fires: the steps of the    *)
(* readers and of the timers are weakly fair, the user's are not.           *)

CsvTypeMessage == "Please upload a CSV file"
CsvSizeMessage == "File size must be less than 10MB"
CsvEmptyMessage == "CSV file is empty"
CsvInsufficientMessage == "Insufficient data. Please provide at least 5 rows for analysis."
CsvParseMessage == "Failed to parse CSV file"

\* lines 156-181: the results validateAndProcessCSV(data) can end with
validateAndProcessCSV(data) ==
    IF Len(data) = 0 THEN {Rejected(CsvEmptyMessage)}
    ELSE {IF Len(sortedData) < MinRows THEN Rejected(CsvInsufficientMessage)
          ELSE Resolved(sortedData) :
              sortedData \in UNION {SortOutcomes(filledData) :
                                        filledData \in {DateFilling(data)}}}

\* lines 183-199: handleFileUpload(file) of the CSV-only component up to
\* Papa.parse; every file over 50 MB is over 10 MB
CsvHandleFileUpload(file) ==
    IF ~EndsWith(file.name, "csv")
    THEN /\ error' = CsvTypeMessage
         /\ uploads' = Append(uploads, Upload(file, "rejected") @@ [csvOnly |-> TRUE])
         /\ UNCHANGED <<fileName, isProcessing, columnMappingInfo, indexVars>>
    ELSE IF file.big
    THEN /\ error' = CsvSizeMessage
         /\ uploads' = Append(uploads, Upload(file, "rejected") @@ [csvOnly |-> TRUE])
         /\ UNCHANGED <<fileName, isProcessing, columnMappingInfo, indexVars>>
    ELSE /\ error' = ""
         /\ fileName' = file.name
         /\ isProcessing' = TRUE
         /\ uploads' = Append(uploads, Upload(file, "parsing") @@ [csvOnly |-> TRUE])
         /\ UNCHANGED <<columnMappingInfo, indexVars>>

\* lines 200-220: Papa.parse calls complete or error for upload u
CsvParsed(u) ==
    /\ uploads[u].pc = "parsing"
    /\ IF ~uploads[u].file.readable
       THEN /\ error' = CsvParseMessage
            /\ fileName' = <<>>
            /\ isProcessing' = FALSE
            /\ uploads' = [uploads EXCEPT ![u].pc = "failed"]
            /\ UNCHANGED <<columnMappingInfo, indexVars>>
       ELSE \E result \in validateAndProcessCSV(uploads[u].file.rows) :
              IF result.ok
              THEN /\ OnFileUpload(Series(u, uploads[u].file, result.data))
                   /\ uploads' = [uploads EXCEPT ![u].pc = "step1",
                                                 ![u].data = result.data,
                                                 ![u].order = AnalysesBegun + 1]
                   /\ isProcessing' = FALSE
                   /\ UNCHANGED <<error, fileName, columnMappingInfo>>
              ELSE /\ error' = result.msg
                   /\ fileName' = <<>>
                   /\ isProcessing' = FALSE
                   /\ uploads' = [uploads EXCEPT ![u].pc = "failed"]
                   /\ UNCHANGED <<columnMappingInfo, indexVars>>
    /\ UNCHANGED otherVars

\* the component the page mounts, as the uploads so far tell
SpreadsheetMounted == \A u \in DOMAIN uploads : "csvOnly" \notin DOMAIN uploads[u]
CsvOnlyMounted == \A u \in DOMAIN uploads : "csvOnly" \in DOMAIN uploads[u]

\* a file is chosen in or dropped on the CSV-only component
CsvUpload ==
    /\ CsvOnlyMounted
    /\ Len(uploads) < MaxUploads
    /\ \E file \in Files : CsvHandleFileUpload(file)
    /\ UNCHANGED otherVars

\* a file reader calls back
Reads == \E u \in DOMAIN uploads : ReadComplete(u) \/ CsvParsed(u)

\* a timer of the page fires
Timers ==
    \E u \in DOMAIN uploads :
        FeatureEngineering(u) \/ RunModels(u) \/ Finalizing(u) \/ Complete(u)

LiveNext ==
    \/ SpreadsheetMounted /\ ChooseFile
    \/ SpreadsheetMounted /\ DropFile
    \/ CsvUpload
    \/ Reads
    \/ Timers

SpecLive == Init /\ [][LiveNext]_vars /\ WF_vars(Reads) /\ WF_vars(Timers)

(* SpecColumns: normalizeColumnNames of the spreadsheet-capable upload       *)
(* component (src/src/components/FileUpload.tsx, lines 497-536) called on    *)
(* the header row of one file.  Its result is kept as the mappings: a       *)
(* function from the standard names that found a header to that header.     *)

\* lines 341-394: the standard names in the order of the object's keys, each
\* with its variations
columnMappings ==
    <<
      [name |-> "date",
       variations |->
          <<<<"D", "a", "t", "e">>, <<"D", "A", "T", "E">>,
            <<"d", "a", "t", "e">>,
            <<"t", "i", "m", "e", "s", "t", "a", "m", "p">>,
            <<"T", "i", "m", "e", "s", "t", "a", "m", "p">>,
            <<"T", "I", "M", "E">>, <<"t", "i", "m", "e">>,
            <<"t", "r", "a", "d", "i", "n", "g", "_", "d", "a", "t", "e">>>>],
      [name |-> "series",
       variations |->
          <<<<"s", "e", "r", "i", "e", "s">>,
            <<"S", "e", "r", "i", "e", "s">>,
            <<"S", "E", "R", "I", "E", "S">>,
            <<"s", "y", "m", "b", "o", "l">>,
            <<"S", "y", "m", "b", "o", "l">>,
            <<"S", "Y", "M", "B", "O", "L">>,
            <<"t", "i", "c", "k", "e", "r">>,
            <<"T", "i", "c", "k", "e", "r">>,
            <<"m", "a", "r", "k", "e", "t", "_", "s", "e", "g", "m", "e", "n", "t">>>>],
      [name |-> "open",
       variations |->
          <<<<"O", "P", "E", "N">>, <<"o", "p", "e", "n">>,
            <<"O", "p", "e", "n">>, <<"o", "p", "e", "n", "i", "n", "g">>,
            <<"O", "p", "e", "n", "i", "n", "g">>,
            <<"o", "p", "e", "n", "_", "p", "r", "i", "c", "e">>>>],
      [name |-> "high",
       variations |->
          <<<<"H", "I", "G", "H">>, <<"h", "i", "g", "h">>,
            <<"H", "i", "g", "h">>, <<"m", "a", "x", "i", "m", "u", "m">>,
            <<"m", "a", "x">>, <<"M", "a", "x">>,
            <<"d", "a", "y", "_", "h", "i", "g", "h">>>>],
      [name |-> "low",
       variations |->
          <<<<"L", "O", "W">>, <<"l", "o", "w">>, <<"L", "o", "w">>,
            <<"m", "i", "n", "i", "m", "u", "m">>, <<"m", "i", "n">>,
            <<"M", "i", "n">>, <<"d", "a", "y", "_", "l", "o", "w">>>>],
      [name |-> "close",
       variations |->
          <<<<"c", "l", "o", "s", "e">>, <<"C", "l", "o", "s", "e">>,
            <<"C", "L", "O", "S", "E">>,
            <<"c", "l", "o", "s", "i", "n", "g">>,
            <<"C", "l", "o", "s", "i", "n", "g">>, <<"l", "t", "p">>,
            <<"L", "T", "P">>,
            <<"l", "a", "s", "t", "_", "p", "r", "i", "c", "e">>>>],
      [name |-> "prevClose",
       variations |->
          <<<<"P", "R", "E", "V", ".", " ", "C", "L", "O", "S", "E">>,
            <<"p", "r", "e", "v", " ", "c", "l", "o", "s", "e">>,
            <<"p", "r", "e", "v", "i", "o", "u", "s", " ", "c", "l", "o", "s", "e">>,
            <<"p", "r", "e", "v", "c", "l", "o", "s", "e">>,
            <<"p", "r", "e", "v", "_", "c", "l", "o", "s", "e">>,
            <<"p", "r", "e", "v", "i", "o", "u", "s", "_", "c", "l", "o", "s", "e">>>>],
      [name |-> "vwap",
       variations |->
          <<<<"v", "w", "a", "p">>, <<"V", "W", "A", "P">>,
            <<"V", "w", "a", "p">>,
            <<"w", "e", "i", "g", "h", "t", "e", "d", " ", "a", "v", "e", "r", "a", "g", "e">>,
            <<"a", "v", "g", " ", "p", "r", "i", "c", "e">>,
            <<"v", "o", "l", "u", "m", "e", "_", "w", "e", "i", "g", "h", "t", "e", "d", "_", "a", "v", "g">>>>],
      [name |-> "volume",
       variations |->
          <<<<"V", "O", "L", "U", "M", "E">>,
            <<"v", "o", "l", "u", "m", "e">>,
            <<"V", "o", "l", "u", "m", "e">>, <<"v", "o", "l">>,
            <<"V", "o", "l">>, <<"V", "O", "L">>,
            <<"q", "u", "a", "n", "t", "i", "t", "y">>,
            <<"Q", "u", "a", "n", "t", "i", "t", "y">>,
            <<"s", "h", "a", "r", "e", "s", "_", "t", "r", "a", "d", "e", "d">>>>],
      [name |-> "value",
       variations |->
          <<<<"V", "A", "L", "U", "E">>, <<"v", "a", "l", "u", "e">>,
            <<"V", "a", "l", "u", "e">>,
            <<"t", "u", "r", "n", "o", "v", "e", "r">>,
            <<"T", "u", "r", "n", "o", "v", "e", "r">>,
            <<"a", "m", "o", "u", "n", "t">>,
            <<"A", "m", "o", "u", "n", "t">>,
            <<"t", "o", "t", "a", "l", "_", "v", "a", "l", "u", "e">>>>],
      [name |-> "trades",
       variations |->
          <<<<"N", "o", " ", "o", "f", " ", "t", "r", "a", "d", "e", "s">>,
            <<"t", "r", "a", "d", "e", "s">>,
            <<"t", "r", "a", "d", "e", " ", "c", "o", "u", "n", "t">>,
            <<"t", "r", "a", "n", "s", "a", "c", "t", "i", "o", "n", "s">>,
            <<"n", "o", "_", "o", "f", "_", "t", "r", "a", "d", "e", "s">>,
            <<"t", "r", "a", "d", "e", "_", "c", "o", "u", "n", "t">>>>],
      [name |-> "fiftyTwoWeekHigh",
       variations |->
          <<<<"5", "2", "W", " ", "H">>,
            <<"5", "2", "w", " ", "h", "i", "g", "h">>,
            <<"5", "2", " ", "w", "e", "e", "k", " ", "h", "i", "g", "h">>,
            <<"y", "e", "a", "r", "l", "y", " ", "h", "i", "g", "h">>,
            <<"5", "2", "_", "w", "e", "e", "k", "_", "h", "i", "g", "h">>>>],
      [name |-> "fiftyTwoWeekLow",
       variations |->
          <<<<"5", "2", "W", " ", "L">>,
            <<"5", "2", "w", " ", "l", "o", "w">>,
            <<"5", "2", " ", "w", "e", "e", "k", " ", "l", "o", "w">>,
            <<"y", "e", "a", "r", "l", "y", " ", "l", "o", "w">>,
            <<"5", "2", "_", "w", "e", "e", "k", "_", "l", "o", "w">>>>]
    >>

\* the header row of the canonical field list, in its canonical order: the
\* fields of NormalizedCSVRow (lines 397-412)
CanonicalHeaders ==
    <<<<"D", "a", "t", "e">>, <<"s", "e", "r", "i", "e", "s">>,
      <<"O", "P", "E", "N">>, <<"H", "I", "G", "H">>, <<"L", "O", "W">>,
      <<"P", "R", "E", "V", ".", " ", "C", "L", "O", "S", "E">>,
      <<"l", "t", "p">>, <<"c", "l", "o", "s", "e">>, <<"v", "w", "a", "p">>,
      <<"5", "2", "W", " ", "H">>, <<"5", "2", "W", " ", "L">>,
      <<"V", "O", "L", "U", "M", "E">>, <<"V", "A", "L", "U", "E">>,
      <<"N", "o", " ", "o", "f", " ", "t", "r", "a", "d", "e", "s">>>>

\* lines 499-502: the test of headers.find
ColumnMatches(header, variation) ==
    \/ Includes(Lowercase(header), Lowercase(variation))
    \/ Includes(Lowercase(variation), Lowercase(header))

\* what findBestColumnMatch returns when no variation finds a header: null,
\* which normalizeColumnNames does not tell from an empty header
NoColumn == <<>>

\* lines 497-506: the first header found by the first variation that finds one
findBestColumnMatch(hdrs, targetColumn) ==
    LET Finds(v) ==
            \E h \in DOMAIN hdrs : ColumnMatches(hdrs[h], targetColumn.variations[v])
    IN  IF \E v \in DOMAIN targetColumn.variations : Finds(v)
        THEN LET v == CHOOSE w \in DOMAIN targetColumn.variations :
                          Finds(w) /\ \A x \in 1..(w - 1) : ~Finds(x)
                 h == CHOOSE g \in DOMAIN hdrs :
                          /\ ColumnMatches(hdrs[g], targetColumn.variations[v])
                          /\ \A k \in 1..(g - 1) :
                                ~ColumnMatches(hdrs[k], targetColumn.variations[v])
             IN  hdrs[h]
        ELSE NoColumn

\* lines 508-536: the mappings of normalizeColumnNames for a file with these
\* headers and at least one row
normalizeColumnNames(hdrs) ==
    LET match == [f \in DOMAIN columnMappings |->
                     findBestColumnMatch(hdrs, columnMappings[f])]
    IN  [name \in {columnMappings[f].name : f \in {g \in DOMAIN columnMappings :
                                                      match[g] # NoColumn}} |->
            match[CHOOSE f \in DOMAIN columnMappings : columnMappings[f].name = name]]

\* a header no variation finds
NotesHeader == <<"N", "o", "t", "e", "s">>

\* the longest header row taken in every order
MaxPicked == 2

\* the header rows of SpecColumns: the canonical one, the canonical one with
\* one header left out or with the header Notes in front, and the rows of up
\* to MaxPicked different headers in every order
HeaderRows ==
    LET pool == {CanonicalHeaders[h] : h \in DOMAIN CanonicalHeaders} \cup {NotesHeader}
    IN  {CanonicalHeaders, <<NotesHeader>> \o CanonicalHeaders}
        \cup {SelectSeq(CanonicalHeaders, LAMBDA h : h # out) : out \in pool}
        \cup {hs \in UNION {[1..m -> pool] : m \in 0..MaxPicked} :
                 \A i, j \in DOMAIN hs : i # j => hs[i] # hs[j]}

ColumnsInit ==
    /\ libInput \in {[fn |-> "normalizeColumnNames", headers |-> hs] : hs \in HeaderRows}
    /\ libOutput = <<>>
    /\ libPc = "input"
    /\ FillIdle
    /\ IngestIdle
    /\ UploadIdle
    /\ MapIdle

\* normalizeColumnNames runs on a file with the headers libInput.headers
NormalizeColumnNames ==
    /\ libPc = "input"
    /\ libOutput' = normalizeColumnNames(libInput.headers)
    /\ libPc' = "returned"
    /\ UNCHANGED <<libInput, fillVars, ingestVars, uploadVars, mapVars>>

ColumnsNext == NormalizeColumnNames

SpecColumns == ColumnsInit /\ [][ColumnsNext]_vars

-----------------------------------------------------------------------------

(* SpecVariant: the upload component of src/unnamed/part_000, the variant   *)
(* of the pipeline that parses the dates: its enhancedDataFilling (lines     *)
(* 262-336) applied to the rows of one file.  Of the normalized row the     *)
(* fields Date, OPEN, HIGH, LOW and close are kept.  A date cell is its      *)
(* text; a file without a date column reads the empty text in every row     *)
(* (line 271).  The other cells are Missing, Text or a number, as in        *)
(* SpecFill.                                                                 *)

\* new Date().toISOString().split('T')[0]: the UTC day of the clock
VariantToday(now) == IsoDay(now.utc, FALSE)

\* new Date(text) of lines 229-232 reads a date: the text is a date of the
\* calendar written YYYY-MM-DD, which is read as that UTC day.  (What other
\* texts give depends on the engine; the texts in use are of this form or
\* hold no digit.)
VariantStandardDate(str) ==
    LET groups == MatchOf("YYYY-MM-DD", str)
    IN  /\ groups # <<>>
        /\ Len(groups[2]) = 2 /\ Len(groups[3]) = 2
        /\ ParseInt(groups[2]) \in 1..12
        /\ ParseInt(groups[3]) \in 1..DaysInMonth(ParseInt(groups[1]), ParseInt(groups[2]) - 1)

\* lines 194-237: parseDate(dateStr) of the variant at the clock now
VariantParseDate(dateStr, now) ==
    LET cleanDateStr == Trim(dateStr)
        ddMmmYyMatch == MatchOf("DD-MMM-YY", cleanDateStr)
        month == IF ddMmmYyMatch = <<>> THEN -1
                 ELSE MonthNamed(Lowercase(ddMmmYyMatch[2]))
    IN  IF cleanDateStr = <<>> THEN VariantToday(now)
        ELSE IF month >= 0
        THEN (IF ParseInt(ddMmmYyMatch[3]) < 50 THEN <<"2", "0">> ELSE <<"1", "9">>)
             \o ddMmmYyMatch[3] \o <<"-">> \o Padded(month + 1, 2) \o <<"-">>
             \o (IF Len(ddMmmYyMatch[1]) < 2 THEN <<"0">> ELSE <<>>) \o ddMmmYyMatch[1]
        ELSE IF VariantStandardDate(cleanDateStr) THEN cleanDateStr
        ELSE VariantToday(now)

\* lines 279-288: parseNumber(value) of the variant; a cell that is no
\* number gives 0
VariantParseNumber(value) == IF IsNum(value) THEN value ELSE Num(0)

\* lines 267-307: the normalized row of one row of the file
VariantFilling(row, now) ==
    LET open == VariantParseNumber(row.open)
        high == VariantParseNumber(row.high)
        low == VariantParseNumber(row.low)
        close == VariantParseNumber(row.close)
    IN  [Date |-> VariantParseDate(row.date, now),
         OPEN |-> IF open.v > 0 THEN ToFixed2(open)
                  ELSE IF close.v > 0 THEN ToFixed2(close) ELSE Num(100000),
         HIGH |-> IF high.v > 0 THEN ToFixed2(high)
                  ELSE ToFixed2Q(Max(open.v, close.v) * 102, 100),
         LOW |-> IF low.v > 0 THEN ToFixed2(low)
                 ELSE ToFixed2Q(Min(open.v, close.v) * 98, 100),
         close |-> IF close.v > 0 THEN ToFixed2(close)
                   ELSE IF open.v > 0 THEN ToFixed2(open) ELSE Num(100000)]

\* lines 262-336: data.map of enhancedDataFilling
VariantDataFilling(data, now) == [i \in DOMAIN data |-> VariantFilling(data[i], now)]

\* the date cells: none, blank, no date, 11-Jul-25, 5-jan-99, 2025-07-11
VariantDateCells ==
    {<<>>, <<" ">>, <<"n", "/", "a">>,
     <<"1", "1", "-", "J", "u", "l", "-", "2", "5">>,
     <<"5", "-", "j", "a", "n", "-", "9", "9">>,
     <<"2", "0", "2", "5", "-", "0", "7", "-", "1", "1">>}

\* the rows of a file: a row with a date cell and the prices 100.00, 110.00,
\* 90.00 and 105.00, and the rows without a date whose prices are absent or
\* present, the high and the low within or outside open and close
VariantRows ==
    {[date |-> date, open |-> Num(100000), high |-> Num(110000), low |-> Num(90000),
      close |-> Num(105000)] : date \in VariantDateCells}
    \cup [date : {<<>>}, open : {Missing, Num(100000)},
          high : {Missing, Num(101000), Num(110000)},
          low : {Missing, Num(103000), Num(90000)},
          close : {Text, Num(105000)}]

\* the longest file of SpecVariant
MaxVariantRows == 2

VariantInit ==
    /\ libInput \in [fn : {"enhancedDataFilling"},
                     data : UNION {[1..n -> VariantRows] : n \in 0..MaxVariantRows},
                     now : Clocks]
    /\ libOutput = <<>>
    /\ libPc = "input"
    /\ FillIdle
    /\ IngestIdle
    /\ UploadIdle
    /\ MapIdle

\* enhancedDataFilling of the variant runs on the rows libInput.data
VariantEnhancedDataFilling ==
    /\ libPc = "input"
    /\ libOutput' = VariantDataFilling(libInput.data, libInput.now)
    /\ libPc' = "returned"
    /\ UNCHANGED <<libInput, fillVars, ingestVars, uploadVars, mapVars>>

VariantNext == VariantEnhancedDataFilling

SpecVariant == VariantInit /\ [][VariantNext]_vars

-----------------------------------------------------------------------------

-----------------------------------------------------------------------------
(* Claims about enhancedDataFilling, checked under SpecFill.                 *)

\* a field of the normalized row read back as a number, as a consumer's
\* parseFloat reads it
FieldNumber(x) == ParseFloat(x)

\* C1: in the row enhancedDataFilling produces, HIGH >= OPEN, HIGH >= close,
\* LOW <= OPEN and LOW <= close, on the values written to the row, for every
\* combination of supplied cells and every value of the random source.
C1_Containment ==
    fillPc = "filled" =>
        /\ normalizedRow.HIGH.v >= normalizedRow.OPEN.v
        /\ normalizedRow.HIGH.v >= normalizedRow.close.v
        /\ normalizedRow.LOW.v <= normalizedRow.OPEN.v
        /\ normalizedRow.LOW.v <= normalizedRow.close.v

\* a field holds a number strictly greater than 0
Positive(x) == FieldNumber(x).k = "inf" \/ (FieldNumber(x).k = "num" /\ FieldNumber(x).v > 0)

\* C2: in the row enhancedDataFilling produces, OPEN, HIGH, LOW, close, ltp,
\* PREV. CLOSE, vwap, VOLUME and No of trades are all strictly greater than 0,
\* whatever the supplied cells are.
C2_Positivity ==
    fillPc = "filled" =>
        /\ Positive(normalizedRow.OPEN)
        /\ Positive(normalizedRow.HIGH)
        /\ Positive(normalizedRow.LOW)
        /\ Positive(normalizedRow.close)
        /\ Positive(normalizedRow.ltp)
        /\ Positive(normalizedRow.PREV_CLOSE)
        /\ Positive(normalizedRow.vwap)
        /\ Positive(normalizedRow.VOLUME)
        /\ Positive(normalizedRow.trades)

\* the field of the normalized row that a column of the raw row feeds
OutputField(col) ==
    CASE col = "open" -> normalizedRow.OPEN
      [] col = "high" -> normalizedRow.HIGH
      [] col = "low" -> normalizedRow.LOW
      [] col = "close" -> normalizedRow.close
      [] col = "prevClose" -> normalizedRow.PREV_CLOSE
      [] col = "vwap" -> normalizedRow.vwap
      [] col = "volume" -> normalizedRow.VOLUME
      [] col = "value" -> normalizedRow.VALUE
      [] col = "trades" -> normalizedRow.trades
      [] col = "fiftyTwoWeekHigh" -> normalizedRow.H52
      [] col = "fiftyTwoWeekLow" -> normalizedRow.L52

NumericColumns == {"open", "high", "low", "close"} \cup AuxFields

\* C9: a cell of a numeric column that is not a number leaves the field it
\* feeds holding a finite number in the output row, never NaN (and never the
\* unparsed text).
C9_TextCellGetsFallback ==
    fillPc = "filled" =>
        \A col \in NumericColumns :
            rawRow[col] = Text => FieldNumber(OutputField(col)).k = "num"

-----------------------------------------------------------------------------
(* Claims about validateAndProcessData, checked under SpecIngest.            *)

\* the dates of rows i and j of the series can both be read
ReadableDates(series, i, j) ==
    GetTime(series[i]).k = "num" /\ GetTime(series[j]).k = "num"

\* C3: the series validateAndProcessData returns is in ascending order of
\* date: of two rows whose dates can be read, the one that comes first has
\* the date that is not later, also when other rows hold date text that
\* cannot be read.
C3_SortedByDate ==
    ingestPc = "settled" /\ ingestResult.ok =>
        \A i, j \in 1..Len(ingestResult.data) :
            i < j /\ ReadableDates(ingestResult.data, i, j)
                => GetTime(ingestResult.data[i]).v <= GetTime(ingestResult.data[j]).v

-----------------------------------------------------------------------------
(* Claims about the upload path, checked under Spec.                         *)

\* the reader of the file finds n data rows, 1 <= n < MinRows
ShortFile(file) ==
    file.readable /\ Len(file.rows) >= 1 /\ Len(file.rows) < MinRows

\* the step settles the ingestion of upload u
IngestionSettles(u) ==
    uploads[u].pc = "reading" /\ uploads'[u].pc # "reading"

\* C4: when the ingestion of a file with n data rows, 1 <= n < 5, settles,
\* it fails with the 'Insufficient data' message: the page's handler is not
\* called (the page's state is unchanged and the upload is over), the
\* component's error is that message and its fileName is cleared.
C4_ShortFileRejected ==
    [][\A u \in DOMAIN uploads :
          IngestionSettles(u) /\ ShortFile(uploads[u].file)
              => /\ uploads'[u].pc = "failed"
                 /\ error' = InsufficientMessage
                 /\ fileName' = <<>>
                 /\ UNCHANGED indexVars]_vars

\* a file of 3 rows was handed over and refused for its length
C4_Witness ==
    \E u \in DOMAIN uploads :
        /\ Len(uploads[u].file.rows) = MinRows - 2
        /\ ShortFile(uploads[u].file)
        /\ uploads[u].pc = "failed"
        /\ error = InsufficientMessage
        /\ fileName = <<>>

\* upload u is being read, validated or analysed
InFlight(u) == uploads[u].pc \in {"reading", "step1", "step2", "step5", "step6"}

\* C5: at most one upload is in flight at a time.
C5_OneInFlight ==
    Cardinality({u \in DOMAIN uploads : InFlight(u)}) <= 1

\* C6: once no upload is in flight, uploadedData is not that of an upload
\* that was started before another upload that also completed: the result of
\* the earlier of two overlapping uploads is discarded.
C6_LatestUploadWins ==
    (\A u \in DOMAIN uploads : ~InFlight(u)) =>
        \A u, v \in DOMAIN uploads :
            u < v /\ uploads[u].pc = "done" /\ uploads[v].pc = "done"
                => uploadedData # Series(u, uploads[u].file, uploads[u].data)

\* the step ends upload u in failure: refused by the checks, failed in
\* ingestion, or failed in the analysis
UploadFails(u) ==
    /\ uploads'[u].pc \in {"rejected", "failed", "error"}
    /\ u \in DOMAIN uploads => uploads[u].pc # uploads'[u].pc

\* the step stores the results of upload u: all four values, computed from
\* one series that validateAndProcessData returned for the upload's file and
\* that the predictors accepted
StoresResultsOf(u) ==
    /\ uploads[u].pc = "step6"
    /\ uploads'[u].pc = "done"
    /\ \E result \in validateAndProcessData(uploads[u].file) :
          /\ result.ok
          /\ uploadedData' = Series(u, uploads[u].file, result.data)
    /\ ~PredictionThrows(uploadedData')
    /\ predictions' = Analysis("predictions", uploadedData')
    /\ enhancedPredictions' = Analysis("enhanced", uploadedData')
    /\ trends' = Analysis("trends", uploadedData')

\* C7: a step in which an upload fails, at whatever stage, leaves
\* uploadedData, predictions, enhancedPredictions and trends as they were;
\* and a step that changes any of them replaces them all, by the results of
\* one upload whose complete series was normalized, sorted and analysed.
C7_FailureKeepsResults ==
    [][/\ (\E u \in DOMAIN uploads' : UploadFails(u)) => UNCHANGED resultVars
       /\ resultVars' # resultVars => \E u \in DOMAIN uploads : StoresResultsOf(u)]_vars

\* an upload has failed in the analysis after an earlier one completed, and
\* the results shown are those of the earlier one
C7_Witness ==
    \E u, v \in DOMAIN uploads :
        /\ u < v
        /\ uploads[u].pc = "done"
        /\ uploads[v].pc = "error"
        /\ uploadedData = Series(u, uploads[u].file, uploads[u].data)
        /\ trends = Analysis("trends", uploadedData)

\* the extension of a file name: what follows its last dot, "" without a dot
Extension(name) == IF Len(name) >= 2 THEN ToLowerCase(name[Len(name)]) ELSE ""

\* the file has an extension outside the supported ones, or more than 50 MB
Unacceptable(file) == Extension(file.name) \notin getSupportedFileTypes \/ file.big

\* C8: handing over a file whose extension is not a supported one, or whose
\* size exceeds 50 MB, sets an error message and nothing else: isProcessing
\* does not become true, no reader is started for the file and the page's
\* handler is not called.
C8_RejectedBeforeReading ==
    [][\A u \in DOMAIN uploads' :
          u \notin DOMAIN uploads /\ Unacceptable(uploads'[u].file)
              => /\ uploads'[u].pc = "rejected"
                 /\ error' \in {UnsupportedMessage, MaxFileSizeMessage}
                 /\ UNCHANGED <<isProcessing, indexVars>>]_vars

\* the header list [Date, OPEN, HIGH, LOW, Close, Volume]
StandardHeaders == SubSeq(HeaderPool, 1, 6)

\* the header each of the six required fields has to be mapped to
ExpectedHeader ==
    [date |-> HeaderPool[1], open |-> HeaderPool[2], high |-> HeaderPool[3],
     low |-> HeaderPool[4], close |-> HeaderPool[5], volume |-> HeaderPool[6]]

\* C10: for the header list [Date, OPEN, HIGH, LOW, Close, Volume],
\* mapColumns maps date to Date, open to OPEN, high to HIGH, low to LOW,
\* close to Close and volume to Volume, each with a confidence of at least
\* 0.9, and emits no "Missing required column" suggestion.
C10_StandardHeadersMapped ==
    mapPc = "mapped" /\ headers = StandardHeaders
        => /\ \A name \in DOMAIN ExpectedHeader :
                  /\ name \in DOMAIN mapResult.mappings
                  /\ mapResult.mappings[name].originalName = ExpectedHeader[name]
                  /\ ~Greater(Frac(9, 10), mapResult.mappings[name].confidence)
           /\ \A i \in DOMAIN mapResult.suggestions :
                  mapResult.suggestions[i].kind # "Missing required column"

\* mapColumns has returned for the header list [Date, OPEN, HIGH, LOW,
\* Close, Volume], with a mapping for each of the six required fields
C10_Witness ==
    /\ mapPc = "mapped"
    /\ headers = StandardHeaders
    /\ DOMAIN ExpectedHeader \subseteq DOMAIN mapResult.mappings

RECURSIVE WeightedSums(_, _)
WeightedSums(mappings, f) ==
    IF f = 0 THEN [confidence |-> Frac(0, 1), weight |-> Frac(0, 1)]
    ELSE LET definition == COLUMN_DEFINITIONS[f]
             before == WeightedSums(mappings, f - 1)
         IN  IF definition.name \in DOMAIN mappings
             THEN [confidence |->
                       Plus(before.confidence,
                            Times(mappings[definition.name].confidence,
                                  Frac(definition.weight, 10))),
                   weight |-> Plus(before.weight, Frac(definition.weight, 10))]
             ELSE before

\* C18: the overall confidence mapColumns returns is the weighted average of
\* the confidences of the mapped fields: the sum of weight * confidence over
\* the sum of the weights, over the mapped fields.
C18_WeightedAverage ==
    mapPc = "mapped" /\ DOMAIN mapResult.mappings # {} =>
        LET sums == WeightedSums(mapResult.mappings, Len(COLUMN_DEFINITIONS))
        IN  SameValue(Times(mapResult.confidence, sums.weight), sums.confidence)

-----------------------------------------------------------------------------
(* Claims about validateMappings, checked under SpecValidate.                *)

\* the required fields
RequiredFields == {"date", "open", "high", "low", "close", "volume"}

\* the required fields without a mapping
Unmapped(mappings) == RequiredFields \ DOMAIN mappings

\* the required fields mapped with a confidence below 0.6
Doubtful(mappings) ==
    {name \in RequiredFields \cap DOMAIN mappings :
        Greater(Frac(6, 10), mappings[name].confidence)}

\* the headers that are the originalName of two different fields
Shared(mappings) ==
    {mappings[a].originalName : a \in {x \in DOMAIN mappings :
        \E y \in DOMAIN mappings : y # x /\ mappings[y].originalName = mappings[x].originalName}}

\* the issues of one kind
IssuesOf(kind) ==
    {libOutput.issues[i] : i \in {j \in DOMAIN libOutput.issues : libOutput.issues[j].kind = kind}}

\* C19: validateMappings returns isValid = true exactly when every required
\* field is mapped, every required field's mapping has a confidence of at
\* least 0.6 and no header is the originalName of two fields; otherwise
\* issues names each violation: each unmapped required field, each required
\* field of low confidence, each shared header.
C19_ValidExactlyWhenSound ==
    libPc = "returned" =>
        /\ libOutput.isValid <=> /\ Unmapped(libInput) = {}
                                 /\ Doubtful(libInput) = {}
                                 /\ Shared(libInput) = {}
        /\ ~libOutput.isValid => libOutput.issues # <<>>
        /\ {issue.names[1] : issue \in IssuesOf("Missing required column")}
               = Unmapped(libInput)
        /\ {issue.names[1] : issue \in IssuesOf("Low confidence mapping for required column")}
               = Doubtful(libInput)
        /\ UNION {{issue.names[i] : i \in DOMAIN issue.names} :
                     issue \in IssuesOf("Duplicate column mappings")}
               = Shared(libInput)

\* validateMappings has returned issues of all three kinds
C19_Witness ==
    /\ libPc = "returned"
    /\ ~libOutput.isValid
    /\ IssuesOf("Missing required column") # {}
    /\ IssuesOf("Low confidence mapping for required column") # {}
    /\ IssuesOf("Duplicate column mappings") # {}

-----------------------------------------------------------------------------
(* A further claim about enhancedDataFilling, checked under SpecFill.        *)

\* C15: for the row with open = 100 and no high, low or close,
\* enhancedDataFilling keeps the open (OPEN = 100.00), sets close to it
\* (close = OPEN = 100.00) and has HIGH >= max(OPEN, close) and
\* LOW <= min(OPEN, close), for every value of the random source.
C15_OpenKeptAndCloseEqual ==
    fillPc = "filled" /\ rawRow = OpenOnlyRow =>
        /\ normalizedRow.OPEN = Num(100000)
        /\ normalizedRow.close = normalizedRow.OPEN
        /\ normalizedRow.HIGH.v >= Max(normalizedRow.OPEN.v, normalizedRow.close.v)
        /\ normalizedRow.LOW.v <= Min(normalizedRow.OPEN.v, normalizedRow.close.v)

-----------------------------------------------------------------------------
(* Claims about EnhancedNumberParser, checked under SpecNumber.              *)

\* 10, 11, 9, 10 and then x
Sample(x) ==
    <<NumberValue(Num(10000)), NumberValue(Num(11000)), NumberValue(Num(9000)),
      NumberValue(Num(10000)), NumberValue(Num(x))>>

\* calculateStatistics of the values, each parsed in price context
StatisticsOf(values) ==
    calculateStatistics([i \in DOMAIN values |-> parseNumber(values[i], "price", "en-US")])

\* C13: for the values 10, 11, 9, 10, 1000 parsed in price context,
\* calculateStatistics returns 1000 and only 1000 in outliers, and a
\* confidence strictly lower than the one it returns for 10, 11, 9, 10, 12.
C13_OutlierLowersConfidence ==
    libPc = "returned" /\ libInput.fn = "calculateStatistics"
    /\ libInput.values = Sample(1000000) =>
        /\ Len(libOutput[1].outliers) = 1
        /\ libOutput[1].outliers[1].value = Num(1000000)
        /\ Greater(StatisticsOf(Sample(12000)).confidence, libOutput[1].confidence)

\* calculateStatistics has returned for 10, 11, 9, 10, 1000, with an outlier
C13_Witness ==
    /\ libPc = "returned"
    /\ libInput.fn = "calculateStatistics"
    /\ libInput.values = Sample(1000000)
    /\ libOutput[1].outliers # <<>>

\* x with its decimals cut off, x in thousandths
Truncated(x) == Sign(x) * (Abs(x) \div 1000) * 1000

\* C14: for a finite number x, parsing the formatted field of
\* parseNumber(x, context) in the same context recovers x to within half a
\* hundredth for price and percentage, and x truncated to an integer for
\* volume.
C14_RoundTrip ==
    libPc = "reparsed" /\ libInput.value.t = "number" /\ IsNum(libInput.value.x) =>
        /\ IsNum(libOutput[2].value)
        /\ IF libInput.context = "volume"
           THEN libOutput[2].value.v = Truncated(libInput.value.x.v)
           ELSE Abs(libOutput[2].value.v - libInput.value.x.v) <= 5

\* C16: parseNumber never returns isValid = true with a negative value in
\* price or volume context, whatever the raw value is.
C16_NoValidNegative ==
    libPc = "returned" /\ libInput.fn = "parseNumber"
    /\ libInput.context \in {"price", "volume"} =>
        ~(libOutput[1].isValid /\ IsNum(libOutput[1].value) /\ libOutput[1].value.v < 0)

\* the sum of the confidences of the first i parsed values that are valid
RECURSIVE ValidConfidence(_, _)
ValidConfidence(parsed, i) ==
    IF i = 0 THEN Frac(0, 1)
    ELSE IF parsed[i].isValid
    THEN Plus(ValidConfidence(parsed, i - 1), parsed[i].confidence)
    ELSE ValidConfidence(parsed, i - 1)

\* C20: for every list, the empty list and a list without a valid element
\* included, the confidence calculateStatistics returns is max(average
\* confidence of the valid values - min(outlier fraction, 0.3), 0.1), and so
\* never below 0.1.
C20_ConfidenceFloor ==
    libPc = "returned" /\ libInput.fn = "calculateStatistics" =>
        LET parsed == [i \in DOMAIN libInput.values |->
                          parseNumber(libInput.values[i], "price", "en-US")]
            valid == Cardinality({i \in DOMAIN parsed : parsed[i].isValid})
            fraction == Frac(Len(libOutput[1].outliers), valid)
            penalty == IF Greater(fraction, Frac(3, 10)) THEN Frac(3, 10) ELSE fraction
            average == Times(ValidConfidence(parsed, Len(parsed)), Frac(1, valid))
            lowered == Minus(average, penalty)
        IN  /\ ~Greater(Frac(1, 10), libOutput[1].confidence)
            /\ valid > 0 =>
                   SameValue(libOutput[1].confidence,
                             IF Greater(lowered, Frac(1, 10)) THEN lowered ELSE Frac(1, 10))

-----------------------------------------------------------------------------
(* Claims about EnhancedDateParser, checked under SpecDate.                  *)

\* '11-Jul-25', '11-Jul-2025', '2025-07-11' and '11/07/2025'
FourLiterals ==
    {<<"1", "1", "-", "J", "u", "l", "-", "2", "5">>,
     <<"1", "1", "-", "J", "u", "l", "-", "2", "0", "2", "5">>,
     <<"2", "0", "2", "5", "-", "0", "7", "-", "1", "1">>,
     <<"1", "1", "/", "0", "7", "/", "2", "0", "2", "5">>}

\* C12: for each of '11-Jul-25', '11-Jul-2025', '2025-07-11' and
\* '11/07/2025' parseDate returns isValid = true, a confidence above 0 and
\* the date 11 July 2025.
C12_FourLiteralsParsed ==
    libPc = "returned" /\ libInput.fn = "parseDate" /\ libInput.dateStr \in FourLiterals =>
        /\ libOutput[1].isValid
        /\ Greater(libOutput[1].confidence, Frac(0, 1))
        /\ libOutput[1].date = DateOn(2025, 6, 11)

\* parseDate has returned a valid date for '11/07/2025'
C12_Witness ==
    /\ libPc = "returned"
    /\ libInput.fn = "parseDate"
    /\ libInput.dateStr = <<"1", "1", "/", "0", "7", "/", "2", "0", "2", "5">>
    /\ libOutput[1].isValid

\* one of the formats matches the text and parseWithFormat returns a valid
\* date for it
Structural(dateStr, now) ==
    \E f \in DOMAIN DATE_FORMATS :
        /\ MatchOf(DATE_FORMATS[f].type, Trim(dateStr)) # <<>>
        /\ parseWithFormat(MatchOf(DATE_FORMATS[f].type, Trim(dateStr)),
                           DATE_FORMATS[f].type, now).isValid

\* C17: whenever parseDate succeeds through one of the structural formats,
\* the confidence it returns is exactly 0.8, whichever format matched.
C17_StructuralConfidence ==
    libPc = "returned" /\ libInput.fn = "parseDate"
    /\ Structural(libInput.dateStr, libInput.now) =>
        SameValue(libOutput[1].confidence, Frac(8, 10))

\* C28: for every text parseDate accepts through a structural format, the
\* formatted field is the zero-padded YYYY-MM-DD of the year, month and day
\* decoded from the text, whatever the offset of local time from UTC.
C28_FormattedIsDecodedDay ==
    libPc = "returned" /\ libInput.fn = "parseDate"
    /\ Structural(libInput.dateStr, libInput.now) =>
        libOutput[1].formatted =
            Padded(libOutput[1].date.year, 4) \o <<"-">>
            \o Padded(libOutput[1].date.month + 1, 2) \o <<"-">>
            \o Padded(libOutput[1].date.day, 2)

-----------------------------------------------------------------------------
(* A claim about PREV. CLOSE, checked under SpecFill.                        *)

\* the close written to the output of a row whose close cell is `cell`, a
\* number above 0: FillPrices reads no other cell and no random draw for it
ResolvedClose(cell) ==
    FillPrices([EmptyRow EXCEPT !.close = cell], CHOOSE rnd \in RandomDraws : TRUE).close

\* C22: a row after the first that has no previous-close cell of its own
\* gets as PREV. CLOSE the close written to the output of the row before
\* it, with and without a previous-close column in the file.  Stated for a
\* preceding row whose close cell is a number above 0.
C22_PrevCloseIsPrecedingClose ==
    /\ fillPc = "filled"
    /\ rowCtx.later
    /\ rawRow.prevClose = Missing
    /\ IsNum(rowCtx.prevRowClose) /\ rowCtx.prevRowClose.v > 0
    => normalizedRow.PREV_CLOSE = ResolvedClose(rowCtx.prevRowClose)

-----------------------------------------------------------------------------
(* Further claims about the upload path, checked under Spec.                 *)

\* C24: the row threshold is the same along the upload path: a series that
\* ingestion accepted and handed to onFileUpload is never refused by the
\* analysis of the page, so no upload that the component reported as
\* successful ends in the page's catch block without its series stored.
C24_AcceptedSeriesAnalysed ==
    \A u \in DOMAIN uploads :
        uploads[u].order > 0 => uploads[u].pc # "error"

\* C29: the success alert (fileName && !isProcessing) and the error alert
\* (error) never show together: whenever no upload is processing in the
\* component, fileName and error are not both non-empty.
C29_AlertsExclusive ==
    ~isProcessing => ~(fileName # <<>> /\ error # "")

\* an upload that passed the checks and has not come to its end
Unsettled(u) ==
    /\ u \in DOMAIN uploads
    /\ uploads[u].pc \in {"reading", "parsing", "step1", "step2", "step5", "step6"}

\* C30: checked under SpecLive.  Every upload that passes the type and size
\* checks comes to an end; isProcessing of the component returns to false;
\* and the page's handleFileUpload ends, on every path, with
\* isProcessing = false, processingStep = '' and progress = 0.
C30_ProcessingEnds ==
    /\ \A u \in 1..MaxUploads : Unsettled(u) ~> ~Unsettled(u)
    /\ isProcessing ~> ~isProcessing
    /\ indexIsProcessing ~> (~indexIsProcessing /\ processingStep = "" /\ progress = 0)
    /\ [][\A u \in DOMAIN uploads :
             uploads[u].pc \in {"step2", "step6"} /\ uploads'[u].pc \in {"error", "done"}
             => ~indexIsProcessing' /\ processingStep' = "" /\ progress' = 0]_vars

\* an upload went through the analysis to its end and nothing is processing
C30_Witness ==
    /\ \E u \in DOMAIN uploads : uploads[u].pc = "done"
    /\ \E u \in DOMAIN uploads : uploads[u].pc \in {"failed", "error"}
    /\ ~isProcessing
    /\ ~indexIsProcessing


\* C27: for the header list [Date, OPEN, HIGH, LOW, Close, Volume], no two
\* fields of the mappings mapColumns returns have the same original header,
\* and validateMappings of these mappings is valid and has no issues.
C27_StandardHeadersValid ==
    mapPc # "input" /\ headers = StandardHeaders =>
        /\ \A f, g \in DOMAIN mapResult.mappings :
              f # g => mapResult.mappings[f].originalName # mapResult.mappings[g].originalName
        /\ validateMappings(mapResult.mappings).isValid
        /\ validateMappings(mapResult.mappings).issues = <<>>


\* the canonical header of each standard name
CanonicalHeader ==
    [date |-> CanonicalHeaders[1], series |-> CanonicalHeaders[2],
     open |-> CanonicalHeaders[3], high |-> CanonicalHeaders[4],
     low |-> CanonicalHeaders[5], prevClose |-> CanonicalHeaders[6],
     close |-> CanonicalHeaders[8], vwap |-> CanonicalHeaders[9],
     fiftyTwoWeekHigh |-> CanonicalHeaders[10], fiftyTwoWeekLow |-> CanonicalHeaders[11],
     volume |-> CanonicalHeaders[12], value |-> CanonicalHeaders[13],
     trades |-> CanonicalHeaders[14]]

\* C26: for a file whose header row is the canonical field list in its
\* canonical order, normalizeColumnNames maps every standard name to the
\* header of the same name: close to close and prevClose to PREV. CLOSE.
C26_CanonicalHeadersMapToThemselves ==
    libPc = "returned" /\ libInput.fn = "normalizeColumnNames"
    /\ libInput.headers = CanonicalHeaders
        => /\ DOMAIN libOutput = DOMAIN CanonicalHeader
           /\ \A name \in DOMAIN libOutput : libOutput[name] = CanonicalHeader[name]


Undated(i) ==
    LET clean == Trim(libInput.data[i].date)
    IN  /\ clean = <<>> \/ MatchOf("DD-MMM-YY", clean) = <<>>
        /\ ~VariantStandardDate(clean)

\* C21: in the variant, the rows whose date cell is empty or cannot be
\* parsed get different dates that increase in file order: the row at index
\* i of N rows gets the day N - i days before today.
C21_SynthesizedDatesIncrease ==
    libPc = "returned" /\ libInput.fn = "enhancedDataFilling" =>
        LET N == Len(libInput.data)
            utc == libInput.now.utc
        IN  /\ \A i \in 1..N :
                  Undated(i) =>
                      libOutput[i].Date =
                          IsoDay(NewDate(utc.year, utc.month, utc.day - (N - (i - 1))), FALSE)
            /\ \A i, j \in 1..N :
                  i < j /\ Undated(i) /\ Undated(j) => libOutput[i].Date # libOutput[j].Date

\* C23: in the variant, a high of the file that is positive but below the
\* greater of open and close, and a low that is positive but above the
\* smaller of them, is not copied: HIGH is at least the greater of OPEN and
\* close, and LOW at most the smaller.
C23_BoundsResynthesized ==
    libPc = "returned" /\ libInput.fn = "enhancedDataFilling" =>
        \A i \in 1..Len(libInput.data) :
            LET open == VariantParseNumber(libInput.data[i].open).v
                high == VariantParseNumber(libInput.data[i].high).v
                low == VariantParseNumber(libInput.data[i].low).v
                close == VariantParseNumber(libInput.data[i].close).v
                row == libOutput[i]
            IN  /\ high > 0 /\ high < Max(open, close)
                       => row.HIGH # ToFixed2(Num(high))
                          /\ row.HIGH.v >= Max(row.OPEN.v, row.close.v)
                /\ low > 0 /\ low > Min(open, close)
                       => row.LOW # ToFixed2(Num(low))
                          /\ row.LOW.v <= Min(row.OPEN.v, row.close.v)

=============================================================================
